---- MODULE Spec2Model ----
(***************************************************************************)
(* Graph memory of AgenticMemory: tenant identity (agmem/multi_tenant.py), *)
(* the FalkorDB graph store (agmem/graph/falkordb_store.py) and the memory *)
(* orchestrator (agmem/graph/main.py).                                     *)
(*                                                                         *)
(* Text is a sequence of one-character strings, so that the escaping of a  *)
(* literal, the whitespace compaction of a command and the database's      *)
(* reading of the literal are computed character by character.             *)
(***************************************************************************)
EXTENDS Integers, Sequences, FiniteSets, TLC

VARIABLES
    sel,        \* SpecTenant: the selectors handed to TenantId
    resolved,   \* SpecTenant: what TenantId(...) produced for sel
    wireIn,     \* SpecWire: the Episode handed to save_episode
    wireDb,     \* SpecWire: the Episode node's properties in the database
    wireOut,    \* SpecWire: what get_episode returned
    entNodes,   \* the database: the Entity nodes
    edges,      \* the database: the RELATES_TO edges
    epNodes,    \* the database: the Episode nodes
    lastOp,     \* SpecStore: the last operation called, with its arguments
    graphMemory,    \* MultiTenantGraphMemory._graph_memory is not None
    initialized,    \* AsyncGraphMemory._initialized
    storesMade,     \* how many FalkorDBGraphStore objects were constructed
    task,           \* the calls in progress: one record per asyncio task
    addsLeft,       \* how many more add calls the run starts
    callsLeft,      \* how many more calls of any kind the run starts
    clock,          \* how many extractions were made: ids and times come from it
    fnArg,      \* the arguments a function is applied to
    fnRet,      \* what it returned
    conn,       \* SpecLife: the FalkorDBGraphStore object and its connection
    life        \* SpecLife: the initialize() and close() calls in progress

dbVars == <<entNodes, edges, epNodes>>
memVars ==
    <<graphMemory, initialized, storesMade, task, addsLeft, callsLeft, clock>>
lifeVars == <<fnArg, fnRet, conn, life>>
vars == <<sel, resolved, wireIn, wireDb, wireOut, entNodes, edges, epNodes,
          lastOp, graphMemory, initialized, storesMade, task, addsLeft,
          callsLeft, clock, fnArg, fnRet, conn, life>>

-----------------------------------------------------------------------------
(* Characters and text *)

SQ == "'"
BS == "\\"
SP == " "
NL == "\n"

\* Python's None. No text holds this element: text is made of single characters.
None == <<"None">>

\* Python truthiness of an Optional[str]: None and "" are false.
Truthy(x) == x # None /\ x # <<>>

\* str.isspace for the characters of the model.
IsSpace(c) == c \in {SP, NL, "\t"}

RECURSIVE Replace(_, _, _)
\* str.replace(old, new) for a one-character old.
Replace(text, old, new) ==
    IF text = <<>> THEN <<>>
    ELSE (IF Head(text) = old THEN new ELSE <<Head(text)>>)
         \o Replace(Tail(text), old, new)

RECURSIVE Concat(_)
\* "".join(parts)
Concat(parts) ==
    IF parts = <<>> THEN <<>> ELSE Head(parts) \o Concat(Tail(parts))

RECURSIVE Join(_, _)
\* sep.join(parts)
Join(sep, parts) ==
    IF parts = <<>> THEN <<>>
    ELSE IF Len(parts) = 1 THEN Head(parts)
    ELSE Head(parts) \o sep \o Join(sep, Tail(parts))

RECURSIVE SplitFrom(_, _, _)
\* str.split() with no separator: the maximal runs of non-whitespace, in order.
\* cur is the run being read, acc the runs already ended.
SplitFrom(text, cur, acc) ==
    IF text = <<>>
    THEN IF cur = <<>> THEN acc ELSE Append(acc, cur)
    ELSE IF IsSpace(Head(text))
         THEN SplitFrom(Tail(text), <<>>,
                        IF cur = <<>> THEN acc ELSE Append(acc, cur))
         ELSE SplitFrom(Tail(text), Append(cur, Head(text)), acc)

Split(text) == SplitFrom(text, <<>>, <<>>)

-----------------------------------------------------------------------------
(* Query construction and the database's reading of it *)


\* a _quote that escapes the quotes and leaves the backslashes
QuoteOnlyQuotes(text) == <<SQ>> \o Replace(text, SQ, <<BS, SQ>>) \o <<SQ>>

\* FalkorDBGraphStore._quote for a str: backslashes doubled first, then every
\* quote preceded by a backslash, the whole between single quotes.
Quote(text) ==
    <<SQ>> \o Replace(Replace(text, BS, <<BS, BS>>), SQ, <<BS, SQ>>) \o <<SQ>>

\* FalkorDBGraphStore._format_value for a list of str: "[" + ", ".join(...) + "]"
FormatList(items) ==
    <<"[">> \o Join(<<",", SP>>, [i \in 1..Len(items) |-> Quote(items[i])])
            \o <<"]">>


\* FalkorDBGraphStore._execute_query: compact_query = " ".join(query.split()),
\* applied to the whole command, the inlined literals included.
CompactQuery(query) == Join(<<SP>>, Split(query))

\* The escape sequences of a Cypher string literal.
Unescape(c) == IF c = "n" THEN NL ELSE IF c = "t" THEN "\t" ELSE c

RECURSIVE ReadString(_, _)
\* The database reading a string literal: rest is the command after the opening
\* quote; the value ends at the first quote no backslash escapes.
ReadString(rest, acc) ==
    IF rest = <<>> THEN acc
    ELSE IF Head(rest) = SQ THEN acc
    ELSE IF Head(rest) = BS /\ Len(rest) > 1
         THEN ReadString(Tail(Tail(rest)), Append(acc, Unescape(rest[2])))
         ELSE ReadString(Tail(rest), Append(acc, Head(rest)))

\* The command fragment "p = <literal>," as _build_set_clause writes it and
\* _execute_query sends it.
SentAssignment(text) == CompactQuery(<<"p", SP, "=", SP>> \o Quote(text) \o <<",">>)

\* The value the database holds for a property set from text: the literal of
\* the sent command, read back by the database.
SentAndRead(text) ==
    LET cmd == SentAssignment(text)
    IN  ReadString(SubSeq(cmd, 6, Len(cmd)), <<>>)

-----------------------------------------------------------------------------
(* Tenant identity: agmem/multi_tenant.py *)

TxtSession == <<"s", "e", "s", "s", "i", "o", "n", ":">>
TxtUser    == <<"u", "s", "e", "r", ":">>
TxtAgent   == <<"a", "g", "e", "n", "t", ":">>
TxtColonAgent == <<":">> \o TxtAgent

\* _build with the user identifier tested first
BuildUserFirst(user_id, agent_id, session_id) ==
    IF Truthy(user_id)
    THEN [ok |-> TRUE, id |-> TxtUser \o user_id, type |-> "user"]
    ELSE IF Truthy(session_id)
    THEN [ok |-> TRUE, id |-> TxtSession \o session_id, type |-> "session"]
    ELSE IF Truthy(agent_id)
    THEN [ok |-> TRUE, id |-> TxtAgent \o agent_id, type |-> "agent"]
    ELSE [ok |-> FALSE, id |-> None, type |-> "ValueError"]

\* TenantId._build: (tenant id, tenant type), or ValueError when no identifier
\* is truthy.
Build(user_id, agent_id, session_id) ==
    IF Truthy(session_id)
    THEN [ok |-> TRUE, id |-> TxtSession \o session_id, type |-> "session"]
    ELSE IF Truthy(user_id) /\ Truthy(agent_id)
    THEN [ok |-> TRUE, id |-> TxtUser \o user_id \o TxtColonAgent \o agent_id,
          type |-> "combined"]
    ELSE IF Truthy(agent_id)
    THEN [ok |-> TRUE, id |-> TxtAgent \o agent_id, type |-> "agent"]
    ELSE IF Truthy(user_id)
    THEN [ok |-> TRUE, id |-> TxtUser \o user_id, type |-> "user"]
    ELSE [ok |-> FALSE, id |-> None, type |-> "ValueError"]

\* TenantId.to_dict
TenantDict(t, user_id, agent_id, session_id) ==
    [tenant_id |-> t.id, tenant_type |-> t.type,
     user_id |-> user_id, agent_id |-> agent_id, session_id |-> session_id]

-----------------------------------------------------------------------------
(* The values the operations are called with *)

TxtPerson == <<"p", "e", "r", "s", "o", "n">>
TxtMessage == <<"m", "e", "s", "s", "a", "g", "e">>
TxtWorksAt == <<"w", "o", "r", "k", "s", "_", "a", "t">>

MaxTime == 0
Times == 0..MaxTime
EntityIds == {<<"e", "1">>, <<"e", "2">>}
RelIds == {<<"r", "1">>}
EpisodeIds == {<<"p", "1">>}
KeyA == Build(<<"a">>, None, None).id
KeyB == Build(None, <<"g">>, None).id
StoreKeys == {KeyA, KeyB}
Names == {<<"x">>, <<"y", NL, "z">>}
Facts == {<<"f">>}
Contents == {<<"c">>}
Embeddings == {<<>>, <<1, 0>>}
QueryEmbeddings == {<<1, 0>>}
Limits == {1, 2}

\* generate_hash of a name: the hash of the normalized name. A hash has no
\* collision in the model and, like a hex digest, no whitespace: it is the
\* normalized name, character by character, with a letter for each whitespace
\* character. The normalization folds case (GraphStoreBase.find_entity_by_name:
\* "exact name match (case-insensitive)").
HashChar(c) ==
    IF c = "X" THEN "x" ELSE IF c = "Y" THEN "y" ELSE IF c = "Z" THEN "z"
    ELSE IF c = SP THEN "_" ELSE IF c = NL THEN "|" ELSE c
NameHash(name) == [i \in 1..Len(name) |-> HashChar(name[i])]

\* generate_id: the n-th id handed out. The ids of one add are taken from the
\* block its extraction opened, so no two calls share one.
Digit(n) == <<"0", "1", "2", "3", "4", "5", "6", "7", "8", "9">>[n + 1]
IdText(n) == IF n < 10 THEN <<"i", Digit(n)>>
             ELSE <<"i", Digit(n \div 10), Digit(n % 10)>>
IdsPerAdd == 4
GeneratedIds == {IdText(n) : n \in 0..49}

\* str.capitalize for the role labels of the model
UpperChar(c) == IF c = "u" THEN "U" ELSE IF c = "a" THEN "A" ELSE c
LowerChar(c) == IF c = "U" THEN "u" ELSE IF c = "A" THEN "a" ELSE c
Capitalize(text) ==
    [i \in 1..Len(text) |-> IF i = 1 THEN UpperChar(text[i]) ELSE LowerChar(text[i])]

\* AsyncGraphMemory.add, the normalization of messages: a str is taken as it
\* is, a list of turns becomes one line per turn, "Role: content", joined by
\* newlines
NormalizeMessages(messages) ==
    IF messages.is_list
    THEN Join(<<NL>>, [i \in 1..Len(messages.turns) |->
                         Capitalize(messages.turns[i].role) \o <<":", SP>>
                             \o messages.turns[i].content])
    ELSE messages.text

TxtUserRole == <<"u", "s", "e", "r">>
TxtAiRole == <<"a", "i">>
TextMessage == [is_list |-> FALSE, text |-> <<"c">>, turns |-> <<>>]
TurnsMessage ==
    [is_list |-> TRUE, text |-> <<>>,
     turns |-> <<[role |-> TxtUserRole, content |-> <<"h">>],
                 [role |-> TxtAiRole, content |-> <<"k">>]>>]
MessageInputs == {TextMessage, TurnsMessage}

\* the names the language model returns
MentionNames == {<<"x">>, <<"y">>, <<"z">>, <<"w">>}

\* every text a command of the model inlines
Texts ==
    EntityIds \cup RelIds \cup EpisodeIds \cup StoreKeys \cup Names \cup Facts
        \cup Contents \cup {<<>>, TxtPerson, TxtMessage, TxtWorksAt}
        \cup {NameHash(n) : n \in Names} \cup GeneratedIds \cup MentionNames
        \cup {NormalizeMessages(m) : m \in MessageInputs}

\* SentAndRead, tabulated over the texts of the model
StoredTable == [t \in Texts |-> SentAndRead(t)]

\* The value the database holds for text; a text it already holds is sent and
\* read again when a command names it.
Stored(text) ==
    IF text \in Texts THEN StoredTable[text] ELSE SentAndRead(text)

\* The same for a list of str (entity_ids, relationship_ids).
StoredList(items) == [i \in 1..Len(items) |-> Stored(items[i])]

-----------------------------------------------------------------------------
(* The graph data model, as the store reads and writes it.                 *)
(* Text fields are text; an embedding is a sequence of integers, empty     *)
(* when the item has none (None and [] alike: every reader tests           *)
(* "if x.embedding"); created_at is a point of a logical clock, written by *)
(* isoformat() and read by fromisoformat(), which hold no whitespace,      *)
(* quote or backslash. metadata and updated_at of an Entity follow summary *)
(* and created_at and are carried by those two fields.                     *)
(* owner is no property of the database: it remembers the tenant key the   *)
(* writer passed, for the statements about isolation.                      *)
(***************************************************************************)

\* save_entity's MERGE: the node keyed by the id literal, every other property
\* SET from the entity.
EntityProps(e) ==
    [id         |-> Stored(e.id),
     user_id    |-> Stored(e.user_id),
     name       |-> Stored(e.name),
     name_hash  |-> Stored(e.name_hash),
     entity_type |-> Stored(e.entity_type),
     summary    |-> Stored(e.summary),
     embedding  |-> e.embedding,
     created_at |-> e.created_at,
     owner      |-> e.user_id]

\* _record_to_entity
RecordToEntity(props) ==
    [id         |-> props.id,
     user_id    |-> props.user_id,
     name       |-> props.name,
     name_hash  |-> props.name_hash,
     entity_type |-> props.entity_type,
     summary    |-> props.summary,
     embedding  |-> props.embedding,
     created_at |-> props.created_at]

\* save_relationship's SET: the properties of the edge.
RelationshipProps(r) ==
    [id            |-> Stored(r.id),
     user_id       |-> Stored(r.user_id),
     relation_type |-> Stored(r.relation_type),
     fact          |-> Stored(r.fact),
     embedding     |-> r.embedding,
     created_at    |-> r.created_at,
     owner         |-> r.user_id]

\* An edge of the database: its properties and the two nodes it joins.
EdgeOf(r) ==
    [p |-> RelationshipProps(r),
     source_id |-> Stored(r.source_id), target_id |-> Stored(r.target_id)]

\* _record_to_relationship
RecordToRelationship(edge) ==
    [id            |-> edge.p.id,
     user_id       |-> edge.p.user_id,
     source_id     |-> edge.source_id,
     target_id     |-> edge.target_id,
     relation_type |-> edge.p.relation_type,
     fact          |-> edge.p.fact,
     embedding     |-> edge.p.embedding,
     created_at    |-> edge.p.created_at]

\* save_episode's MERGE and SET.
EpisodeProps(ep) ==
    [id               |-> Stored(ep.id),
     user_id          |-> Stored(ep.user_id),
     content          |-> Stored(ep.content),
     source           |-> Stored(ep.source),
     entity_ids       |-> StoredList(ep.entity_ids),
     relationship_ids |-> StoredList(ep.relationship_ids),
     created_at       |-> ep.created_at,
     owner            |-> ep.user_id]

\* _record_to_episode
RecordToEpisode(props) ==
    [id               |-> props.id,
     user_id          |-> props.user_id,
     content          |-> props.content,
     source           |-> props.source,
     entity_ids       |-> props.entity_ids,
     relationship_ids |-> props.relationship_ids,
     created_at       |-> props.created_at]

-----------------------------------------------------------------------------
(* The store's commands on the database: entity nodes, edges, episode nodes *)


\* MERGE (n {id: ...}) SET ...: every node with that id takes the properties;
\* when there is none, one is created.
MergeNode(nodes, props) ==
    IF \E n \in nodes : n.id = props.id
    THEN {IF n.id = props.id THEN props ELSE n : n \in nodes}
    ELSE nodes \cup {props}

\* save_entity on a database that keeps (user_id, name_hash) unique: the node
\* of that tenant and name_hash is replaced
SaveEntityUniqueName(nodes, e) ==
    {n \in nodes : ~ (/\ n.user_id = EntityProps(e).user_id
                      /\ n.name_hash = EntityProps(e).name_hash
                      /\ n.id # EntityProps(e).id)}
        \cup {EntityProps(e)}

\* FalkorDBGraphStore.save_entity
SaveEntity(nodes, e) == MergeNode(nodes, EntityProps(e))

\* FalkorDBGraphStore.save_episode
SaveEpisode(eps, ep) == MergeNode(eps, EpisodeProps(ep))

\* FalkorDBGraphStore.save_relationship: both MATCHes must find a node, else
\* the command writes nothing; the MERGE looks for an edge with that id between
\* these two nodes, in this direction, and creates one when there is none.
SaveRelationship(nodes, es, r) ==
    LET new == EdgeOf(r)
        same(x) == /\ x.p.id = new.p.id
                   /\ x.source_id = new.source_id
                   /\ x.target_id = new.target_id
    IN  IF ~ (/\ \E n \in nodes : n.id = new.source_id
              /\ \E n \in nodes : n.id = new.target_id)
        THEN es
        ELSE IF \E x \in es : same(x)
             THEN {IF same(x) THEN new ELSE x : x \in es}
             ELSE es \cup {new}

\* a DELETE that leaves the edges of the deleted nodes in place
KeepEdges(es, ids) == es

\* DETACH DELETE of a set of node ids: the edges that touch them go too.
Detach(es, ids) == {x \in es : x.source_id \notin ids /\ x.target_id \notin ids}

\* An Optional[Entity] (or Episode, or Relationship) is <<>> for None and
\* <<x>> for the value x.

\* FalkorDBGraphStore.get_entity: LIMIT 1 of the nodes with that id
GetEntity(nodes, entity_id) ==
    IF \E n \in nodes : n.id = Stored(entity_id)
    THEN <<RecordToEntity(CHOOSE n \in nodes : n.id = Stored(entity_id))>>
    ELSE <<>>

\* FalkorDBGraphStore.get_episode
GetEpisode(eps, episode_id) ==
    IF \E n \in eps : n.id = Stored(episode_id)
    THEN <<RecordToEpisode(CHOOSE n \in eps : n.id = Stored(episode_id))>>
    ELSE <<>>

\* The MATCH of get_entities_by_user: the tenant's entity nodes.
EntityNodesOf(nodes, user_id) == {n \in nodes : n.user_id = Stored(user_id)}

\* The MATCH of get_relationships_by_user: the edges carrying the tenant key.
EdgesOf(es, user_id) == {x \in es : x.p.user_id = Stored(user_id)}

\* The MATCH of get_episodes_by_user.
EpisodeNodesOf(eps, user_id) == {n \in eps : n.user_id = Stored(user_id)}

RECURSIVE Orders(_)
\* Every order a set of rows can come in.
Orders(rows) ==
    IF rows = {} THEN {<<>>}
    ELSE UNION {{<<x>> \o rest : rest \in Orders(rows \ {x})} : x \in rows}

\* s[:n]
Take(s, n) == SubSeq(s, 1, IF Len(s) < n THEN Len(s) ELSE n)

\* ORDER BY created_at DESC LIMIT limit: every row sequence the database may
\* return (rows created at the same time come in any order). at[x] is the
\* created_at of row x.
Newest(rows, at, limit) ==
    {Take(s, limit) :
        s \in {o \in Orders(rows) :
                 \A i, j \in 1..Len(o) : i < j => at[o[i]] >= at[o[j]]}}

\* FalkorDBGraphStore.get_entities_by_user: every list it may return
GetEntitiesByUser(nodes, user_id, limit) ==
    LET rows == EntityNodesOf(nodes, user_id)
    IN  {[i \in 1..Len(s) |-> RecordToEntity(s[i])] :
            s \in Newest(rows, [x \in rows |-> x.created_at], limit)}

\* FalkorDBGraphStore.get_relationships_by_user: every list it may return
GetRelationshipsByUser(es, user_id, limit) ==
    LET rows == EdgesOf(es, user_id)
    IN  {[i \in 1..Len(s) |-> RecordToRelationship(s[i])] :
            s \in Newest(rows, [x \in rows |-> x.p.created_at], limit)}

\* FalkorDBGraphStore.delete_user_data, the count query: count(n) over the
\* nodes of any label that carry the tenant key.
CountUserNodes(nodes, eps, user_id) ==
    Cardinality(EntityNodesOf(nodes, user_id))
        + Cardinality(EpisodeNodesOf(eps, user_id))

-----------------------------------------------------------------------------
(* Similarity. A score is the exact value dot / sqrt(nn), kept as the pair *)
(* (dot, nn) with nn > 0, since a square root has no integer value.        *)

Score(dot, nn) == [dot |-> dot, nn |-> nn]
ScoreZero == Score(0, 1)
\* the 0.5 the orchestrator gives a hit that has no embedding
ScoreHalf == Score(1, 4)

\* sign(dot) * dot^2 / nn, the square of the score with its sign, as num/den
SignedSquare(s) == (IF s.dot < 0 THEN 0 - s.dot * s.dot ELSE s.dot * s.dot)

\* s1 < s2
ScoreLess(s1, s2) == SignedSquare(s1) * s2.nn < SignedSquare(s2) * s1.nn

\* s1 = s2 as numbers
ScoreEqual(s1, s2) == SignedSquare(s1) * s2.nn = SignedSquare(s2) * s1.nn

RECURSIVE DotTo(_, _, _)
\* sum(x * y for x, y in zip(a, b)) over the first n places
DotTo(a, b, n) == IF n = 0 THEN 0 ELSE a[n] * b[n] + DotTo(a, b, n - 1)

\* zip stops at the shorter of the two
ZipLen(a, b) == IF Len(a) < Len(b) THEN Len(a) ELSE Len(b)

\* FalkorDBGraphStore._cosine_similarity
StoreCosineSimilarity(a, b) ==
    IF a = <<>> \/ b = <<>> \/ Len(a) # Len(b) THEN ScoreZero
    ELSE LET dot == DotTo(a, b, ZipLen(a, b))
             na  == DotTo(a, a, Len(a))
             nb  == DotTo(b, b, Len(b))
         IN  IF na = 0 \/ nb = 0 THEN ScoreZero ELSE Score(dot, na * nb)

\* AsyncGraphMemory._cosine_similarity
CosineSimilarity(a, b) ==
    LET dot == DotTo(a, b, ZipLen(a, b))
        na  == DotTo(a, a, Len(a))
        nb  == DotTo(b, b, Len(b))
    IN  IF na = 0 \/ nb = 0 THEN ScoreZero ELSE Score(dot, na * nb)

RECURSIVE SortByScore(_)
\* list.sort(key=score, reverse=True): descending, and stable (items of equal
\* score keep their order). Each item is a record with a score field.
SortByScore(items) ==
    IF items = <<>> THEN <<>>
    ELSE LET n      == Len(items)
             x      == items[n]
             front  == SortByScore(SubSeq(items, 1, n - 1))
             \* the items of front that stay before x: those not below it
             k      == Cardinality({i \in 1..Len(front) :
                                      ~ ScoreLess(front[i].score, x.score)})
         IN  SubSeq(front, 1, k) \o <<x>> \o SubSeq(front, k + 1, Len(front))

RECURSIVE WithEmbedding(_)
\* the items of a list that have an embedding ("if x.embedding"), in order
WithEmbedding(items) ==
    IF items = <<>> THEN <<>>
    ELSE (IF Head(items).embedding # <<>> THEN <<Head(items)>> ELSE <<>>)
         \o WithEmbedding(Tail(items))

\* the ceiling of candidates search_entities and search_relationships load
CandidateLimit == 500

\* the scoring, sort and cut shared by search_entities and search_relationships
RankCandidates(candidates, embedding, limit) ==
    LET kept   == WithEmbedding(candidates)
        scored == [i \in 1..Len(kept) |->
                     [item  |-> kept[i],
                      score |-> StoreCosineSimilarity(embedding, kept[i].embedding)]]
        top    == Take(SortByScore(scored), limit)
    IN  [i \in 1..Len(top) |-> top[i].item]

\* search_entities with the ceiling of its get_entities_by_user call as a
\* parameter: every list it may return
SearchEntitiesWithin(nodes, embedding, user_id, limit, ceiling) ==
    {RankCandidates(c, embedding, limit) :
        c \in GetEntitiesByUser(nodes, user_id, ceiling)}

\* search_relationships with the ceiling of its get_relationships_by_user call
\* as a parameter
SearchRelationshipsWithin(es, embedding, user_id, limit, ceiling) ==
    {RankCandidates(c, embedding, limit) :
        c \in GetRelationshipsByUser(es, user_id, ceiling)}

\* FalkorDBGraphStore.search_entities: every list it may return
SearchEntities(nodes, embedding, user_id, limit) ==
    SearchEntitiesWithin(nodes, embedding, user_id, limit, CandidateLimit)

\* FalkorDBGraphStore.search_relationships: every list it may return
SearchRelationships(es, embedding, user_id, limit) ==
    SearchRelationshipsWithin(es, embedding, user_id, limit, CandidateLimit)

-----------------------------------------------------------------------------
(* The orchestrator's reads: agmem/graph/main.py *)

TxtColonSpace == <<":", SP>>
TxtIsA == <<SP, "i", "s", SP, "a", SP>>
TxtEntity == <<"e", "n", "t", "i", "t", "y">>

\* the name search attaches for an endpoint: "" when get_entity finds none
NameOf(nodes, entity_id) ==
    IF GetEntity(nodes, entity_id) = <<>> THEN <<>>
    ELSE GetEntity(nodes, entity_id)[1].name

\* the GraphSearchResult of a relationship hit, given the two names found
Hit(rel, source_name, target_name, embedding) ==
    [id            |-> rel.id,
     fact          |-> rel.fact,
     relation_type |-> rel.relation_type,
     source_entity |-> source_name,
     target_entity |-> target_name,
     score         |-> IF rel.embedding # <<>>
                       THEN CosineSimilarity(embedding, rel.embedding)
                       ELSE ScoreHalf]

\* the same with the two get_entity calls made on one state of the database
RelationshipHit(nodes, rel, embedding) ==
    Hit(rel, NameOf(nodes, rel.source_id), NameOf(nodes, rel.target_id),
        embedding)

\* the GraphSearchResult of an entity hit: a pseudo-fact
EntityHit(entity, embedding) ==
    [id            |-> entity.id,
     fact          |-> IF entity.summary # <<>>
                       THEN entity.name \o TxtColonSpace \o entity.summary
                       ELSE entity.name \o TxtIsA \o entity.entity_type,
     relation_type |-> TxtEntity,
     source_entity |-> entity.name,
     target_entity |-> <<>>,
     score         |-> IF entity.embedding # <<>>
                       THEN CosineSimilarity(embedding, entity.embedding)
                       ELSE ScoreHalf]

\* RankHits by an ascending sort that is then reversed: hits of equal score
\* come out last to first
RankHitsTiesReversed(hits, limit) ==
    Take(SortByScore([i \in 1..Len(hits) |-> hits[Len(hits) + 1 - i]]), limit)

\* results.sort(key=score, reverse=True); results[:limit]
RankHits(hits, limit) == Take(SortByScore(hits), limit)

\* Search with the entity search made whatever the relationship search found
SearchBoth(nodes, es, embedding, user_id, limit) ==
    UNION {
        {RankHits([i \in 1..Len(rels) |->
                      RelationshipHit(nodes, rels[i], embedding)]
                  \o [i \in 1..Len(ents) |-> EntityHit(ents[i], embedding)],
                  limit) :
             ents \in SearchEntities(nodes, embedding, user_id, limit)}
        : rels \in SearchRelationships(es, embedding, user_id, limit * 2)}

\* AsyncGraphMemory.search, given the query's embedding: every result list it
\* may return
Search(nodes, es, embedding, user_id, limit) ==
    UNION {
        IF rels # <<>>
        THEN {RankHits([i \in 1..Len(rels) |->
                          RelationshipHit(nodes, rels[i], embedding)], limit)}
        ELSE {RankHits([i \in 1..Len(ents) |->
                          EntityHit(ents[i], embedding)], limit) :
                 ents \in SearchEntities(nodes, embedding, user_id, limit)}
        : rels \in SearchRelationships(es, embedding, user_id, limit * 2)}

\* AsyncGraphMemory.get_all_entities: every listing it may return
GetAllEntities(nodes, user_id, limit) == GetEntitiesByUser(nodes, user_id, limit)

\* AsyncGraphMemory.get_all_relationships: every listing it may return
GetAllRelationships(es, user_id, limit) ==
    GetRelationshipsByUser(es, user_id, limit)

-----------------------------------------------------------------------------
(* SpecStore: the store's writes and the orchestrator's reads and deletes, *)
(* called one after another on one database.                               *)


\* Entity(id, user_id, name, ...): name_hash is generate_hash(name)
Entity(id, user_id, name, summary, embedding, created_at) ==
    [id |-> id, user_id |-> user_id, name |-> name, name_hash |-> NameHash(name),
     entity_type |-> TxtPerson, summary |-> summary, embedding |-> embedding,
     created_at |-> created_at]

\* Relationship(id, user_id, source_id, target_id, ...)
Relationship(id, user_id, source_id, target_id, fact, embedding, created_at) ==
    [id |-> id, user_id |-> user_id, source_id |-> source_id,
     target_id |-> target_id, relation_type |-> TxtWorksAt, fact |-> fact,
     embedding |-> embedding, created_at |-> created_at]

\* Episode(id, user_id, content, source, entity_ids, relationship_ids, ...)
Episode(id, user_id, content, entity_ids, relationship_ids, created_at) ==
    [id |-> id, user_id |-> user_id, content |-> content, source |-> TxtMessage,
     entity_ids |-> entity_ids, relationship_ids |-> relationship_ids,
     created_at |-> created_at]

StoreEntities ==
    {Entity(id, k, n, <<>>, m, t) :
        id \in EntityIds, k \in StoreKeys, n \in Names, m \in Embeddings,
        t \in Times}

StoreRelationships ==
    {Relationship(id, k, ab[1], ab[2], f, <<1, 0>>, 0) :
        id \in RelIds, k \in StoreKeys,
        ab \in {p \in EntityIds \X EntityIds : p[1] # p[2]}, f \in Facts}

StoreEpisodes ==
    {Episode(id, k, <<"c">>, <<>>, <<>>, 0) : id \in EpisodeIds, k \in StoreKeys}

\* FalkorDBGraphStore.save_entity, called by a user of the store
StoreSaveEntity(e) ==
    /\ entNodes' = SaveEntity(entNodes, e)
    /\ lastOp' = [op |-> "save_entity", arg |-> e]
    /\ UNCHANGED <<edges, epNodes>>

\* FalkorDBGraphStore.save_relationship
StoreSaveRelationship(r) ==
    /\ edges' = SaveRelationship(entNodes, edges, r)
    /\ lastOp' = [op |-> "save_relationship", arg |-> r]
    /\ UNCHANGED <<entNodes, epNodes>>

\* FalkorDBGraphStore.save_episode
StoreSaveEpisode(ep) ==
    /\ epNodes' = SaveEpisode(epNodes, ep)
    /\ lastOp' = [op |-> "save_episode", arg |-> ep]
    /\ UNCHANGED <<entNodes, edges>>

\* FalkorDBGraphStore.delete_user_data, the delete command: DETACH DELETE of
\* every node carrying the tenant key
DeleteUserNodes(user_id) ==
    /\ entNodes' = entNodes \ EntityNodesOf(entNodes, user_id)
    /\ epNodes' = epNodes \ EpisodeNodesOf(epNodes, user_id)
    /\ edges' = Detach(edges, {n.id : n \in EntityNodesOf(entNodes, user_id)})

\* the number of nodes written under a tenant key (by their owner, the key the
\* writer passed)
NodesWrittenBy(nodes, eps, user_id) ==
    Cardinality({n \in nodes : n.owner = user_id})
        + Cardinality({n \in eps : n.owner = user_id})

\* the default limit of get_all_entities and get_all_relationships
DefaultLimit == 100

\* AsyncGraphMemory.delete_all with no other call in between: the count, then
\* the delete, and the count returned
MemDeleteAll(user_id) ==
    /\ DeleteUserNodes(user_id)
    /\ lastOp' = [op |-> "delete_all", user_id |-> user_id,
                  deleted_count |-> CountUserNodes(entNodes, epNodes, user_id),
                  before |-> NodesWrittenBy(entNodes, epNodes, user_id)]

\* FalkorDBGraphStore.get_entity_relationships: the edges at the entity, in
\* either direction, in an order the server chooses (the query has no ORDER BY)
GetEntityRelationships(es, entity_id) ==
    LET rows == {x \in es : Stored(entity_id) \in {x.source_id, x.target_id}}
        n == Cardinality(rows)
    IN  {[i \in 1..n |-> RecordToRelationship(s[i])] :
            s \in {q \in [1..n -> rows] : \A i, j \in 1..n : q[i] = q[j] => i = j}}

\* the calls of a delete that does not look at what get_entity returned
DeleteCallsUnchecked(entity) == <<"get_entity", "delete_entity">>

\* the store methods AsyncGraphMemory.delete calls, given what get_entity
\* returned: delete_entity only for an entity that was found
MemDeleteCalls(entity) ==
    IF entity = <<>> THEN <<"get_entity">> ELSE <<"get_entity", "delete_entity">>

\* the store methods AsyncGraphMemory.get_entity calls: the relationships are
\* read only for an entity that was found
MemGetEntityCalls(entity) ==
    IF entity = <<>> THEN <<"get_entity">>
    ELSE <<"get_entity", "get_entity_relationships">>

\* AsyncGraphMemory.delete: success is False, and nothing is deleted, when
\* get_entity finds no entity; else delete_entity's DETACH DELETE
MemDelete(entity_id) ==
    LET entity == GetEntity(entNodes, entity_id)
        calls == MemDeleteCalls(entity)
    IN  /\ IF \E i \in 1..Len(calls) : calls[i] = "delete_entity"
           THEN /\ entNodes' = {n \in entNodes : n.id # Stored(entity_id)}
                /\ edges' = Detach(edges, {Stored(entity_id)})
           ELSE UNCHANGED <<entNodes, edges>>
        /\ lastOp' = [op |-> "delete", entity_id |-> entity_id,
                      success |-> entity # <<>>, calls |-> calls]
        /\ UNCHANGED epNodes

\* AsyncGraphMemory.get_entity: None when the store has no such entity, else
\* the entity with its relationships
MemGetEntity(entity_id) ==
    LET entity == GetEntity(entNodes, entity_id)
        calls == MemGetEntityCalls(entity)
    IN  /\ IF entity = <<>>
           THEN lastOp' = [op |-> "get_entity", entity_id |-> entity_id,
                           result |-> <<>>, calls |-> calls]
           ELSE \E rels \in GetEntityRelationships(edges, entity_id) :
                   lastOp' = [op |-> "get_entity", entity_id |-> entity_id,
                              result |-> <<[entity |-> entity[1],
                                            relationships |-> rels]>>,
                              calls |-> calls]
        /\ UNCHANGED dbVars

\* AsyncGraphMemory.search
MemSearch(embedding, user_id, limit) ==
    /\ \E res \in Search(entNodes, edges, embedding, user_id, limit) :
          lastOp' = [op |-> "search", user_id |-> user_id, limit |-> limit,
                     embedding |-> embedding, results |-> res]
    /\ UNCHANGED dbVars

\* AsyncGraphMemory.get_all_entities
MemGetAllEntities(user_id, limit) ==
    /\ \E res \in GetAllEntities(entNodes, user_id, limit) :
          lastOp' = [op |-> "get_all_entities", user_id |-> user_id,
                     limit |-> limit, entities |-> res]
    /\ UNCHANGED dbVars

\* AsyncGraphMemory.get_all_relationships
MemGetAllRelationships(user_id, limit) ==
    /\ \E res \in GetAllRelationships(edges, user_id, limit) :
          lastOp' = [op |-> "get_all_relationships", user_id |-> user_id,
                     limit |-> limit, relationships |-> res]
    /\ UNCHANGED dbVars

NoOp == [op |-> "none"]

\* the variables of the specifications of one function or of the store's
\* connection, in the other specifications
LifeUnused == fnArg = None /\ fnRet = None /\ conn = None /\ life = None

\* the wrapper and the orchestrator, in the specifications that call the store
\* or TenantId alone
MemUnused ==
    /\ graphMemory = FALSE /\ initialized = FALSE /\ storesMade = 0
    /\ task = <<>> /\ addsLeft = 0 /\ callsLeft = 0 /\ clock = 0
otherVarsStore == <<sel, resolved, wireIn, wireDb, wireOut, memVars, lifeVars>>

InitStore ==
    /\ entNodes = {} /\ edges = {} /\ epNodes = {}
    /\ lastOp = NoOp
    /\ sel = None /\ resolved = None
    /\ wireIn = None /\ wireDb = None /\ wireOut = None
    /\ LifeUnused
    /\ MemUnused

NextStore ==
    /\ UNCHANGED otherVarsStore
    /\ \/ \E e \in StoreEntities : StoreSaveEntity(e)
       \/ \E r \in StoreRelationships : StoreSaveRelationship(r)
       \/ \E ep \in StoreEpisodes : StoreSaveEpisode(ep)
       \/ \E k \in StoreKeys : MemDeleteAll(k)
       \/ \E id \in EntityIds : MemDelete(id)
       \/ \E id \in EntityIds : MemGetEntity(id)
       \/ \E k \in StoreKeys, m \in QueryEmbeddings, l \in Limits :
             MemSearch(m, k, l)
       \/ \E k \in StoreKeys, l \in Limits : MemGetAllEntities(k, l)
       \/ \E k \in StoreKeys, l \in Limits : MemGetAllRelationships(k, l)

SpecStore == InitStore /\ [][NextStore]_vars


-----------------------------------------------------------------------------
(* The extraction pipeline (agmem/graph/extraction.py), from its contract: *)
(* the names the language model returns are resolved against the entities  *)
(* the caller loaded; the model's answer is an input of the call.          *)

\* embed(text) for the names of the model: "w" lies within the dedup threshold
\* of "x", every other pair lies outside it
NameEmbedding(name) ==
    IF name = <<"x">> THEN <<1, 0>>
    ELSE IF name = <<"y">> THEN <<0, 1>>
    ELSE IF name = <<"w">> THEN <<3, 1>>
    ELSE <<1, 1>>

\* embed(fact)
FactEmbedding == <<1, 0>>

\* entity_dedup_threshold = 0.9, as the fraction ThresholdNum / ThresholdDen
ThresholdNum == 9
ThresholdDen == 10

\* score >= entity_dedup_threshold
AtLeastThreshold(s) ==
    /\ s.dot >= 0
    /\ s.dot * s.dot * ThresholdDen * ThresholdDen
          >= ThresholdNum * ThresholdNum * s.nn

\* the places of existing whose name_hash is the hash of name
ExactMatches(name, existing) ==
    {i \in 1..Len(existing) : existing[i].name_hash = NameHash(name)}

\* the places of existing whose embedding is similar enough to the name's
SimilarMatches(name, existing) ==
    {i \in 1..Len(existing) :
        /\ existing[i].embedding # <<>>
        /\ AtLeastThreshold(CosineSimilarity(NameEmbedding(name),
                                             existing[i].embedding))}

\* entity resolution of one name: the existing entity of that name_hash, else
\* the first existing entity similar enough (its id reused), else a new entity
\* with the id and time given
ResolveEntity(name, existing, user_id, n) ==
    IF ExactMatches(name, existing) # {}
    THEN existing[CHOOSE i \in ExactMatches(name, existing) :
                     \A j \in ExactMatches(name, existing) : i <= j]
    ELSE IF SimilarMatches(name, existing) # {}
    THEN existing[CHOOSE i \in SimilarMatches(name, existing) :
                     \A j \in SimilarMatches(name, existing) : i <= j]
    ELSE Entity(IdText(n), user_id, name, <<>>, NameEmbedding(name), n)

\* the entities of one extraction: one per name, in the order of the names;
\* the k-th takes the k-th id of the block that starts at base
ExtractEntities(names, existing, user_id, base) ==
    [k \in 1..Len(names) |-> ResolveEntity(names[k], existing, user_id, base + k)]

\* an extraction that keeps a relationship whose target is none of the
\* resolved entities
ExtractDangling(link, entities, user_id, base) ==
    IF link /\ Len(entities) >= 2
    THEN <<Relationship(IdText(base + 3), user_id, entities[1].id,
                        IdText(base + 4), <<"f">>, FactEmbedding, base + 3)>>
    ELSE <<>>

\* the relationships of one extraction: the model links the first resolved
\* entity to the second, or returns none
ExtractRelationships(link, entities, user_id, base) ==
    IF link /\ Len(entities) >= 2
    THEN <<Relationship(IdText(base + 3), user_id, entities[1].id,
                        entities[2].id, <<"f">>, FactEmbedding, base + 3)>>
    ELSE <<>>

-----------------------------------------------------------------------------
(* Spec: MultiTenantGraphMemory called from concurrent asyncio tasks. A    *)
(* task runs without interruption up to its next await of the database;    *)
(* each command the database executes is one step.                         *)

MaxTasks == 2
Tasks == 1..MaxTasks
MaxAdds == 2
MaxCalls == 3
MaxSeqAdds == 3

\* the ceiling of existing entities and relationships add loads. The code's
\* ceiling is 500 (limit=500); the model scales it to LoadLimit so that a
\* tenant can hold more entities than one load returns.
LoadLimit == 2

QueryEmbedding == <<1, 0>>

NoSelectors == [user_id |-> None, agent_id |-> None, session_id |-> None]
SelUserA == [NoSelectors EXCEPT !.user_id = <<"a">>]
SelAgentG == [NoSelectors EXCEPT !.agent_id = <<"g">>]
SelEmpty == [NoSelectors EXCEPT !.user_id = <<>>]
\* a user identifier that holds a run of two spaces
SelUserWide == [NoSelectors EXCEPT !.user_id = <<"a", SP, SP, "b">>]
SeqSelectors == {SelUserA, SelUserWide}
Selectors == {SelUserA, SelAgentG, NoSelectors, SelEmpty}

Mentions == {<<>>, <<<<"x">>>>, <<<<"x">>, <<"y">>>>}
SeqMentions ==
    {<<>>, <<<<"x">>>>, <<<<"y">>>>, <<<<"z">>>>, <<<<"w">>>>, <<<<"x">>, <<"y">>>>}

\* a task that has no call in progress
IdleTask ==
    [pc |-> "idle", op |-> "none", sel |-> NoSelectors, key |-> None,
     content |-> <<>>, limit |-> 0,
     existing |-> <<>>, existing_rels |-> <<>>,
     new_entities |-> <<>>, new_relationships |-> <<>>, done |-> 0,
     episode |-> <<>>, count |-> 0, rels |-> <<>>, hits |-> <<>>,
     source_name |-> <<>>, log |-> <<>>]

\* lastOp before any call ended
NoCall ==
    [op |-> "none", task |-> 0, raised |-> FALSE, call |-> IdleTask,
     result |-> <<>>]

\* lastOp tells what the step that led to the state ended: nothing, when the
\* step was one of a call that goes on
NotEnded == lastOp' = NoCall

\* A call ends: the task is idle again, and lastOp holds the call's record, the
\* exception raised or the result returned.
Ended(t, call, raised, result) ==
    /\ task' = [task EXCEPT ![t] = IdleTask]
    /\ lastOp' = [op |-> call.op, task |-> t, raised |-> raised, call |-> call,
                  result |-> result]

\* WrapperEntry with _get_memory called before _build_tenant
MemoryFirstEntry(s, graph_memory) ==
    LET tenant == Build(s.user_id, s.agent_id, s.session_id)
    IN  [raised |-> ~ tenant.ok, key |-> tenant.id, graph_memory |-> TRUE]

\* the head of every operation of MultiTenantGraphMemory: _build_tenant, which
\* may raise, and only then _get_memory, which creates the orchestrator when
\* there is none
WrapperEntry(s, graph_memory) ==
    LET tenant == Build(s.user_id, s.agent_id, s.session_id)
    IN  IF ~ tenant.ok
        THEN [raised |-> TRUE, key |-> None, graph_memory |-> graph_memory]
        ELSE [raised |-> FALSE, key |-> tenant.id, graph_memory |-> TRUE]

\* the first command of each operation of AsyncGraphMemory
FirstPc(op) ==
    IF op = "add" THEN "load_entities"
    ELSE IF op = "search" THEN "search_relationships"
    ELSE IF op = "get_all_entities" THEN "list_entities"
    ELSE IF op = "get_all_relationships" THEN "list_relationships"
    ELSE "count"

\* A wrapper operation up to its first await that suspends: the ValueError of
\* TenantId, or the orchestrator call, which goes through _ensure_initialized:
\* with _initialized unset it constructs a store and awaits its initialize().
\* Idle tasks are alike, and a call is run by the first of them.
Enter(t, op, s, content, limit) ==
    LET w == WrapperEntry(s, graphMemory)
        call == [IdleTask EXCEPT !.op = op, !.sel = s, !.key = w.key,
                                 !.content = content, !.limit = limit]
    IN  /\ task[t].pc = "idle"
        /\ \A u \in Tasks : u < t => task[u].pc # "idle"
        /\ graphMemory' = w.graph_memory
        /\ IF w.raised
           THEN /\ Ended(t, call, TRUE, "ValueError")
                /\ UNCHANGED <<storesMade, addsLeft, callsLeft>>
           ELSE /\ task' = [task EXCEPT ![t] =
                      [call EXCEPT !.pc = IF initialized THEN FirstPc(op)
                                          ELSE "init"]]
                /\ storesMade' = IF initialized THEN storesMade
                                 ELSE storesMade + 1
                /\ callsLeft > 0
                /\ callsLeft' = callsLeft - 1
                /\ addsLeft' = IF op = "add" THEN addsLeft - 1 ELSE addsLeft
                /\ NotEnded
        /\ UNCHANGED <<initialized, clock, dbVars>>

\* MultiTenantGraphMemory.add
CallAdd(t, s, messages) ==
    /\ addsLeft > 0
    /\ Enter(t, "add", s, NormalizeMessages(messages), 0)

\* MultiTenantGraphMemory.search
CallSearch(t, s, limit) == Enter(t, "search", s, <<>>, limit)

\* MultiTenantGraphMemory.get_all_entities
CallGetAllEntities(t, s, limit) == Enter(t, "get_all_entities", s, <<>>, limit)

\* MultiTenantGraphMemory.get_all_relationships
CallGetAllRelationships(t, s, limit) ==
    Enter(t, "get_all_relationships", s, <<>>, limit)

\* MultiTenantGraphMemory.delete_all
CallDeleteAll(t, s) == Enter(t, "delete_all", s, <<>>, 0)

\* what a step of a call in progress leaves alone
Frame == UNCHANGED <<graphMemory, initialized, storesMade, addsLeft, callsLeft>>

\* _ensure_initialized after the store's initialize() returned
InitDone(t) ==
    /\ task[t].pc = "init"
    /\ initialized' = TRUE
    /\ task' = [task EXCEPT ![t].pc = FirstPc(task[t].op)]
    /\ NotEnded
    /\ UNCHANGED <<graphMemory, storesMade, addsLeft, callsLeft, clock, dbVars>>

\* one entry of a task's log: a call of the store, and the id it writes
LogEntry(call, id) == [call |-> call, id |-> id]

\* the call's record with one more entry in its log
Logged(t, call, id) == [task[t] EXCEPT !.log = Append(@, LogEntry(call, id))]

\* the tenant record of a wrapper that resolves the result's tenant with the
\* user identifier first
TenantOfUserFirst(t) ==
    TenantDict(BuildUserFirst(task[t].sel.user_id, task[t].sel.agent_id,
                              task[t].sel.session_id),
               task[t].sel.user_id, task[t].sel.agent_id, task[t].sel.session_id)

\* the tenant record the wrapper puts into every result
TenantOf(t) ==
    TenantDict(Build(task[t].sel.user_id, task[t].sel.agent_id,
                     task[t].sel.session_id),
               task[t].sel.user_id, task[t].sel.agent_id, task[t].sel.session_id)


\* AsyncGraphMemory.add: existing_entities = get_entities_by_user(limit=500)
AddLoadEntities(t) ==
    /\ task[t].pc = "load_entities"
    /\ \E got \in GetEntitiesByUser(entNodes, task[t].key, LoadLimit) :
          task' = [task EXCEPT ![t] =
              [Logged(t, "get_entities_by_user", <<>>) EXCEPT
                  !.existing = got, !.pc = "load_relationships"]]
    /\ Frame /\ NotEnded /\ UNCHANGED <<clock, dbVars>>

\* AsyncGraphMemory.add: existing_rels = get_relationships_by_user(limit=500)
AddLoadRelationships(t) ==
    /\ task[t].pc = "load_relationships"
    /\ \E got \in GetRelationshipsByUser(edges, task[t].key, LoadLimit) :
          task' = [task EXCEPT ![t] =
              [Logged(t, "get_relationships_by_user", <<>>) EXCEPT
                  !.existing_rels = got, !.pc = "extract"]]
    /\ Frame /\ NotEnded /\ UNCHANGED <<clock, dbVars>>

\* AddPc with an early return when nothing was extracted
EarlyReturnPc(after, new_entities, new_relationships) ==
    IF new_entities = <<>> /\ new_relationships = <<>> THEN "return"
    ELSE IF after = "extract" /\ new_entities # <<>> THEN "save_entities"
    ELSE IF after \in {"extract", "entities"} /\ new_relationships # <<>>
    THEN "save_relationships"
    ELSE "save_episode"

\* AddPc with the relationships written before the entities
RelationshipsFirstPc(after, new_entities, new_relationships) ==
    IF after = "extract" /\ new_relationships # <<>> THEN "save_relationships"
    ELSE IF after \in {"extract", "relationships"} /\ new_entities # <<>>
    THEN "save_entities"
    ELSE "save_episode"

\* The order of the writes of add: "if new_entities: save_entities", then
\* "if new_relationships: save_relationships", then save_episode. after names
\* the part that just ended.
AddPc(after, new_entities, new_relationships) ==
    IF after = "extract" /\ new_entities # <<>> THEN "save_entities"
    ELSE IF after \in {"extract", "entities"} /\ new_relationships # <<>>
    THEN "save_relationships"
    ELSE "save_episode"

\* AsyncGraphMemory.add: extract_graph_from_content, with the names and the
\* link the language model returned. count keeps the first id of the call.
AddExtract(t, names, link) ==
    LET base == IdsPerAdd * clock
        ents == ExtractEntities(names, task[t].existing, task[t].key, base)
        rels == ExtractRelationships(link, ents, task[t].key, base)
    IN  /\ task[t].pc = "extract"
        /\ clock' = clock + 1
        /\ task' = [task EXCEPT ![t].new_entities = ents,
                                ![t].new_relationships = rels,
                                ![t].count = base,
                                ![t].pc = AddPc("extract", ents, rels)]
        /\ Frame /\ NotEnded /\ UNCHANGED dbVars

\* save_entities: one save_entity command per entity, in order
AddSaveEntity(t) ==
    LET i == task[t].done + 1
        e == task[t].new_entities[i]
        last == i = Len(task[t].new_entities)
    IN  /\ task[t].pc = "save_entities"
        /\ entNodes' = SaveEntity(entNodes, e)
        /\ task' = [task EXCEPT ![t] =
              [Logged(t, "save_entity", e.id) EXCEPT
                  !.done = IF last THEN 0 ELSE i,
                  !.pc = IF last
                         THEN AddPc("entities", task[t].new_entities,
                                    task[t].new_relationships)
                         ELSE "save_entities"]]
        /\ Frame /\ NotEnded /\ UNCHANGED <<clock, edges, epNodes>>

\* save_relationships: one save_relationship command per relationship
AddSaveRelationship(t) ==
    LET i == task[t].done + 1
        r == task[t].new_relationships[i]
        last == i = Len(task[t].new_relationships)
    IN  /\ task[t].pc = "save_relationships"
        /\ edges' = SaveRelationship(entNodes, edges, r)
        /\ task' = [task EXCEPT ![t] =
              [Logged(t, "save_relationship", r.id) EXCEPT
                  !.done = IF last THEN 0 ELSE i,
                  !.pc = IF last
                         THEN AddPc("relationships", task[t].new_entities,
                                    task[t].new_relationships)
                         ELSE "save_relationships"]]
        /\ Frame /\ NotEnded /\ UNCHANGED <<clock, entNodes, epNodes>>

\* AsyncGraphMemory.add: the Episode of the call, with the ids of the new
\* entities and relationships in their order
NewEpisode(id, user_id, content, new_entities, new_relationships, at) ==
    Episode(id, user_id, content,
            [i \in 1..Len(new_entities) |-> new_entities[i].id],
            [i \in 1..Len(new_relationships) |-> new_relationships[i].id], at)

\* AsyncGraphMemory.add: save_episode, and the result returned; the wrapper
\* adds the tenant record
AddSaveEpisode(t) ==
    LET ep == NewEpisode(IdText(task[t].count), task[t].key, task[t].content,
                         task[t].new_entities, task[t].new_relationships,
                         task[t].count)
    IN  /\ task[t].pc = "save_episode"
        /\ epNodes' = SaveEpisode(epNodes, ep)
        /\ Ended(t, [Logged(t, "save_episode", ep.id) EXCEPT !.episode = <<ep>>],
                 FALSE,
                 [episode_id |-> ep.id,
                  entities |-> task[t].new_entities,
                  relationships |-> task[t].new_relationships,
                  tenant |-> TenantOf(t)])
        /\ Frame /\ UNCHANGED <<clock, entNodes, edges>>

\* KeptAfterFailure with a compensating rollback: the entities the call saved
\* are deleted
RolledBack(nodes, call) ==
    {n \in nodes : \A i \in 1..Len(call.log) :
                      call.log[i] # LogEntry("save_entity", n.id)}

\* AsyncGraphMemory.add has no except clause around its writes: the Entity
\* nodes the database holds when a write raises are left as they are
KeptAfterFailure(nodes, call) == nodes

\* AsyncGraphMemory.add: a write command of the store raises (the connection
\* fails); nothing catches it in save_entities, save_relationships,
\* save_episode or add, so the call ends with the exception
AddWriteFails(t) ==
    /\ task[t].pc \in {"save_entities", "save_relationships", "save_episode"}
    /\ entNodes' = KeptAfterFailure(entNodes, task[t])
    /\ Ended(t, task[t], TRUE, "StoreError")
    /\ Frame /\ UNCHANGED <<clock, edges, epNodes>>

\* delete_user_data, the count query
DeleteAllCount(t) ==
    /\ task[t].pc = "count"
    /\ task' = [task EXCEPT ![t] =
          [Logged(t, "count", <<>>) EXCEPT
              !.count = CountUserNodes(entNodes, epNodes, task[t].key),
              !.pc = "delete"]]
    /\ Frame /\ NotEnded /\ UNCHANGED <<clock, dbVars>>

\* delete_user_data, the delete command, and delete_all's result
DeleteAllDelete(t) ==
    /\ task[t].pc = "delete"
    /\ DeleteUserNodes(task[t].key)
    /\ Ended(t, Logged(t, "delete", <<>>), FALSE,
             [success |-> TRUE, deleted_count |-> task[t].count,
              tenant |-> TenantOf(t)])
    /\ Frame /\ UNCHANGED clock

\* AsyncGraphMemory.get_all_entities
ListEntities(t) ==
    /\ task[t].pc = "list_entities"
    /\ \E got \in GetAllEntities(entNodes, task[t].key, task[t].limit) :
          Ended(t, Logged(t, "get_entities_by_user", <<>>), FALSE,
                [entities |-> got, tenant |-> TenantOf(t)])
    /\ Frame /\ UNCHANGED <<clock, dbVars>>

\* AsyncGraphMemory.get_all_relationships
ListRelationships(t) ==
    /\ task[t].pc = "list_relationships"
    /\ \E got \in GetAllRelationships(edges, task[t].key, task[t].limit) :
          Ended(t, Logged(t, "get_relationships_by_user", <<>>), FALSE,
                [relationships |-> got, tenant |-> TenantOf(t)])
    /\ Frame /\ UNCHANGED <<clock, dbVars>>

\* AsyncGraphMemory.search: search_relationships(limit * 2)
SearchRelationshipsStep(t) ==
    /\ task[t].pc = "search_relationships"
    /\ \E got \in SearchRelationships(edges, QueryEmbedding, task[t].key,
                                      task[t].limit * 2) :
          task' = [task EXCEPT ![t] =
              [Logged(t, "search_relationships", <<>>) EXCEPT
                  !.rels = got,
                  !.pc = IF got = <<>> THEN "search_entities"
                         ELSE "source_name"]]
    /\ Frame /\ NotEnded /\ UNCHANGED <<clock, dbVars>>

\* AsyncGraphMemory.search: get_entity(rel.source_id) for the next hit
SearchSourceName(t) ==
    LET rel == task[t].rels[Len(task[t].hits) + 1]
    IN  /\ task[t].pc = "source_name"
        /\ task' = [task EXCEPT ![t] =
              [Logged(t, "get_entity", rel.source_id) EXCEPT
                  !.source_name = NameOf(entNodes, rel.source_id),
                  !.pc = "target_name"]]
        /\ Frame /\ NotEnded /\ UNCHANGED <<clock, dbVars>>

\* AsyncGraphMemory.search: get_entity(rel.target_id), the hit appended; after
\* the last one the hits are sorted, cut and returned
SearchTargetName(t) ==
    LET rel == task[t].rels[Len(task[t].hits) + 1]
        hits == Append(task[t].hits,
                       Hit(rel, task[t].source_name,
                           NameOf(entNodes, rel.target_id), QueryEmbedding))
        call == [Logged(t, "get_entity", rel.target_id) EXCEPT
                    !.source_name = <<>>, !.hits = hits, !.pc = "source_name"]
    IN  /\ task[t].pc = "target_name"
        /\ IF Len(hits) = Len(task[t].rels)
           THEN Ended(t, call, FALSE,
                      [results |-> RankHits(hits, task[t].limit),
                       tenant |-> TenantOf(t)])
           ELSE task' = [task EXCEPT ![t] = call] /\ NotEnded
        /\ Frame /\ UNCHANGED <<clock, dbVars>>

\* AsyncGraphMemory.search, no relationship found: search_entities(limit) and
\* the pseudo-facts
SearchEntitiesStep(t) ==
    /\ task[t].pc = "search_entities"
    /\ \E got \in SearchEntities(entNodes, QueryEmbedding, task[t].key,
                                 task[t].limit) :
          Ended(t, Logged(t, "search_entities", <<>>), FALSE,
                [results |-> RankHits([i \in 1..Len(got) |->
                                  EntityHit(got[i], QueryEmbedding)],
                                      task[t].limit),
                 tenant |-> TenantOf(t)])
    /\ Frame /\ UNCHANGED <<clock, dbVars>>

otherVarsMem == <<sel, resolved, wireIn, wireDb, wireOut, lifeVars>>

InitMem ==
    /\ graphMemory = FALSE /\ initialized = FALSE /\ storesMade = 0
    /\ task = [t \in Tasks |-> IdleTask]
    /\ clock = 0
    /\ entNodes = {} /\ edges = {} /\ epNodes = {}
    /\ lastOp = NoCall
    /\ sel = None /\ resolved = None
    /\ wireIn = None /\ wireDb = None /\ wireOut = None
    /\ LifeUnused

Init == InitMem /\ addsLeft = MaxAdds /\ callsLeft = MaxCalls

\* the steps of a call in progress
Step(t) ==
    \/ InitDone(t)
    \/ AddLoadEntities(t)
    \/ AddLoadRelationships(t)
    \/ AddSaveEntity(t)
    \/ AddSaveRelationship(t)
    \/ AddSaveEpisode(t)
    \/ DeleteAllCount(t)
    \/ DeleteAllDelete(t)
    \/ ListEntities(t)
    \/ ListRelationships(t)
    \/ SearchRelationshipsStep(t)
    \/ SearchSourceName(t)
    \/ SearchTargetName(t)
    \/ SearchEntitiesStep(t)

Next ==
    /\ UNCHANGED otherVarsMem
    /\ \E t \in Tasks :
          \/ \E s \in Selectors : CallAdd(t, s, TurnsMessage)
          \/ \E s \in Selectors : CallSearch(t, s, 1)
          \/ \E s \in Selectors : CallGetAllEntities(t, s, DefaultLimit)
          \/ \E s \in Selectors : CallGetAllRelationships(t, s, DefaultLimit)
          \/ \E s \in Selectors : CallDeleteAll(t, s)
          \/ \E names \in Mentions, link \in BOOLEAN : AddExtract(t, names, link)
          \/ Step(t)

Spec == Init /\ [][Next]_vars

\* SpecSeq: one caller that awaits each add before it makes the next
InitSeq == InitMem /\ addsLeft = MaxSeqAdds /\ callsLeft = MaxSeqAdds

NextSeq ==
    /\ UNCHANGED otherVarsMem
    /\ \/ \E m \in MessageInputs, s \in SeqSelectors : CallAdd(1, s, m)
       \/ \E names \in SeqMentions, link \in BOOLEAN : AddExtract(1, names, link)
       \/ InitDone(1)
       \/ AddLoadEntities(1)
       \/ AddLoadRelationships(1)
       \/ AddSaveEntity(1)
       \/ AddSaveRelationship(1)
       \/ AddSaveEpisode(1)
       \/ AddWriteFails(1)

SpecSeq == InitSeq /\ [][NextSeq]_vars

-----------------------------------------------------------------------------
(* SpecTenant: TenantId built from every combination of selectors *)

SelUsers == {None, <<>>, <<"a">>, <<"a", ":", "a", "g", "e", "n", "t", ":", "b">>}
SelAgents == {None, <<>>, <<"b">>, <<"g">>}
SelSessions == {None, <<>>, <<"s">>, <<"t">>}

InitTenant ==
    /\ sel \in [user_id : SelUsers, agent_id : SelAgents, session_id : SelSessions]
    /\ resolved = <<>>
    /\ wireIn = None /\ wireDb = None /\ wireOut = None
    /\ LifeUnused
    /\ entNodes = {} /\ edges = {} /\ epNodes = {}
    /\ lastOp = NoOp
    /\ MemUnused

\* TenantId.__init__: _build on the three identifiers
Resolve ==
    /\ resolved = <<>>
    /\ resolved' = <<Build(sel.user_id, sel.agent_id, sel.session_id)>>
    /\ UNCHANGED <<sel, wireIn, wireDb, wireOut, entNodes, edges, epNodes, lastOp,
                   memVars, lifeVars>>

NextTenant == Resolve

SpecTenant == InitTenant /\ [][NextTenant]_vars

\* an identifier that was supplied: neither None nor ""
Present(x) == x # None /\ x # <<>>

\* C2: tenant key resolution follows the fixed priority for every combination
\* of present and absent identifiers: a session wins over everything, then
\* user with agent, then the agent alone, then the user alone.
C2_ResolutionPriority ==
    resolved # <<>> =>
        LET r == resolved[1]
            u == sel.user_id
            a == sel.agent_id
            n == sel.session_id
        IN  /\ Present(n) =>
                /\ r.ok /\ r.type = "session"
                /\ r.id = TxtSession \o n
            /\ (~ Present(n) /\ Present(u) /\ Present(a)) =>
                /\ r.ok /\ r.type = "combined"
                /\ r.id = TxtUser \o u \o <<":">> \o TxtAgent \o a
            /\ (~ Present(n) /\ ~ Present(u) /\ Present(a)) =>
                /\ r.ok /\ r.type = "agent"
                /\ r.id = TxtAgent \o a
            /\ (~ Present(n) /\ Present(u) /\ ~ Present(a)) =>
                /\ r.ok /\ r.type = "user"
                /\ r.id = TxtUser \o u

\* C2 witness: all three identifiers supplied, and the key resolved
C2_Witness ==
    /\ resolved # <<>>
    /\ Present(sel.user_id) /\ Present(sel.agent_id) /\ Present(sel.session_id)

-----------------------------------------------------------------------------
(* SpecWire: an Episode written by save_episode and read by get_episode *)

MaxLen == 2
WireChars == {"a", SQ, BS, SP, NL}
WireTexts == UNION {[1..n -> WireChars] : n \in 0..MaxLen}

InitWire ==
    /\ wireIn \in {Episode(<<"p", "1">>, KeyA, c, ids, <<>>, 0) :
                      c \in WireTexts, ids \in {<<>>, <<<<"e", "1">>>>}}
    /\ wireDb = {} /\ wireOut = <<>>
    /\ sel = None /\ resolved = None
    /\ entNodes = {} /\ edges = {} /\ epNodes = {}
    /\ lastOp = NoOp
    /\ MemUnused
    /\ LifeUnused

\* FalkorDBGraphStore.save_episode
WireSave ==
    /\ wireDb = {}
    /\ wireDb' = SaveEpisode(wireDb, wireIn)
    /\ UNCHANGED <<sel, resolved, wireIn, wireOut, entNodes, edges, epNodes, lastOp,
                   memVars, lifeVars>>

\* FalkorDBGraphStore.get_episode
WireRead ==
    /\ wireDb # {} /\ wireOut = <<>>
    /\ wireOut' = GetEpisode(wireDb, wireIn.id)
    /\ UNCHANGED <<sel, resolved, wireIn, wireDb, entNodes, edges, epNodes, lastOp,
                   memVars, lifeVars>>

NextWire == WireSave \/ WireRead

SpecWire == InitWire /\ [][NextWire]_vars

\* C6: an Episode saved and read back by id equals the one written, field by
\* field, for every content, quotes, backslashes, newlines and runs of
\* whitespace included.
C6_RoundTrip == wireOut # <<>> => wireOut[1] = wireIn

-----------------------------------------------------------------------------
(* Statements checked under SpecStore *)

\* MERGE keeps one Entity node per id
UniqueEntityIds == \A n1, n2 \in entNodes : n1.id = n2.id => n1 = n2

\* C4: after save_entity(e) the store holds exactly one Entity node with e's
\* id, and every field read back equals the field of e, whatever was saved
\* under that id before.
C4_UpsertLatestFields ==
    /\ UniqueEntityIds
    /\ lastOp.op = "save_entity" =>
          GetEntity(entNodes, lastOp.arg.id) = <<lastOp.arg>>

\* C5: delete_all returns the number of the tenant's nodes stored before the
\* call, and right after it get_all_entities and get_all_relationships for
\* that tenant are both empty.
C5_DeleteAllCountsAndEmpties ==
    lastOp.op = "delete_all" =>
        /\ lastOp.deleted_count = lastOp.before
        /\ GetAllEntities(entNodes, lastOp.user_id, DefaultLimit) = {<<>>}
        /\ GetAllRelationships(edges, lastOp.user_id, DefaultLimit) = {<<>>}

\* the names of the entities written under a tenant key
NamesWrittenBy(nodes, user_id) == {n.name : n \in {m \in nodes : m.owner = user_id}}

\* C1: nothing written under tenant A is returned by search, get_all_entities
\* or get_all_relationships called with tenant B: every listed entity or
\* relationship carries the key of the call, and a search hit names only
\* entities written under the key of the call.
C1_Isolation ==
    /\ lastOp.op = "get_all_entities" =>
          \A i \in 1..Len(lastOp.entities) :
              lastOp.entities[i].user_id = lastOp.user_id
    /\ lastOp.op = "get_all_relationships" =>
          \A i \in 1..Len(lastOp.relationships) :
              lastOp.relationships[i].user_id = lastOp.user_id
    /\ lastOp.op = "search" =>
          \A i \in 1..Len(lastOp.results) :
              /\ lastOp.results[i].source_entity
                    \in NamesWrittenBy(entNodes, lastOp.user_id) \cup {<<>>}
              /\ lastOp.results[i].target_entity
                    \in NamesWrittenBy(entNodes, lastOp.user_id) \cup {<<>>}

-----------------------------------------------------------------------------
(* Statements checked under SpecSeq *)

\* C7: after any sequence of adds that do not overlap, no two stored entities
\* of one tenant share a name_hash.
C7_NoDuplicateNameHash ==
    \A n1, n2 \in entNodes :
        (n1.user_id = n2.user_id /\ n1.name_hash = n2.name_hash) => n1.id = n2.id

-----------------------------------------------------------------------------
(* Statements checked under Spec *)

\* the step in which task t starts a call
Starts(t) == task[t].pc = "idle" /\ task'[t].pc # "idle"

\* C3: a wrapper operation called with no identifier (each absent or empty)
\* raises the ValueError of tenant resolution and leaves the orchestrator
\* uncreated and the store untouched; a call that goes on had an identifier.
C3_ErrorBeforeOrchestrator ==
    [][/\ \A t \in Tasks :
             Starts(t) => Build(task'[t].sel.user_id, task'[t].sel.agent_id,
                                task'[t].sel.session_id).ok
       /\ lastOp'.raised =>
             /\ ~ Present(lastOp'.call.sel.user_id)
             /\ ~ Present(lastOp'.call.sel.agent_id)
             /\ ~ Present(lastOp'.call.sel.session_id)
             /\ lastOp'.result = "ValueError"
             /\ UNCHANGED <<graphMemory, initialized, storesMade, task,
                            entNodes, edges, epNodes>>
       /\ \A t \in Tasks :
             Starts(t) => (Present(task'[t].sel.user_id)
                               \/ Present(task'[t].sel.agent_id)
                               \/ Present(task'[t].sel.session_id))]_vars

\* C3 witness: add was called with no identifier on a wrapper that has no
\* orchestrator yet, and raised
C3_Witness == lastOp.raised /\ lastOp.op = "add" /\ ~ graphMemory

\* the entity task t writes in its next save_entity
NextEntity(t) == task[t].new_entities[task[t].done + 1]

\* C8: nothing keeps two overlapping adds apart: a task that is to load the
\* existing graph can always do so, whatever the other tasks are doing, and a
\* save_entity leaves every node of another id in place, so an entity of the
\* same tenant and name_hash saved meanwhile by another add stays beside it.
C8_RaceNotPrevented ==
    [][\A t \in Tasks :
          /\ task[t].pc = "load_entities" => ENABLED AddLoadEntities(t)
          /\ (task[t].pc = "save_entities" /\ task'[t] # task[t]) =>
                /\ \E n \in entNodes' : n.id = NextEntity(t).id
                /\ \A n \in entNodes : n.id # NextEntity(t).id => n \in entNodes']_vars

\* C8 witness: an add that loaded no existing entity has saved a new one, and
\* the store holds another entity of that tenant and name_hash under another
\* id: both adds loaded before either saved
C8_Witness ==
    \E t \in Tasks :
        /\ task[t].op = "add" /\ task[t].existing = <<>>
        /\ \E i \in 1..Len(task[t].new_entities) :
              /\ \E n \in entNodes : n.id = task[t].new_entities[i].id
              /\ \E m \in entNodes :
                    /\ m.id # task[t].new_entities[i].id
                    /\ m.user_id = task[t].new_entities[i].user_id
                    /\ m.name_hash = task[t].new_entities[i].name_hash

\* the place of a store call in the order of add
Phase(call) ==
    IF call = "get_entities_by_user" THEN 1
    ELSE IF call = "get_relationships_by_user" THEN 2
    ELSE IF call = "save_entity" THEN 3
    ELSE IF call = "save_relationship" THEN 4
    ELSE 5

\* the log holds a call of that name for every id of the list
AllIssued(log, call, items) ==
    \A k \in 1..Len(items) :
        \E i \in 1..Len(log) : log[i] = LogEntry(call, items[k].id)

\* the order of the store calls of one add
OrderedAdd(c) ==
    /\ \A i, j \in 1..Len(c.log) :
          i < j => Phase(c.log[i].call) <= Phase(c.log[j].call)
    /\ \A i \in 1..Len(c.log) :
          /\ Phase(c.log[i].call) = 1 <=> i = 1
          /\ Phase(c.log[i].call) = 2 <=> i = 2
          /\ Phase(c.log[i].call) = 5 =>
                /\ i = Len(c.log)
                /\ AllIssued(SubSeq(c.log, 1, i - 1), "save_entity", c.new_entities)
                /\ AllIssued(SubSeq(c.log, 1, i - 1), "save_relationship",
                             c.new_relationships)
    /\ c.pc \in {"save_relationships", "save_episode"} =>
          AllIssued(c.log, "save_entity", c.new_entities)
    /\ c.pc = "save_episode" =>
          AllIssued(c.log, "save_relationship", c.new_relationships)

\* C9: under every interleaving, the store calls of an add come in the order
\* loads, entity saves, relationship saves, episode; when the episode is
\* written every save for the ids it lists has been issued.
C9_WriteOrder ==
    /\ \A t \in Tasks : task[t].op = "add" => OrderedAdd(task[t])
    /\ (lastOp.op = "add" /\ ~ lastOp.raised) =>
          /\ OrderedAdd(lastOp.call)
          /\ lastOp.call.log[Len(lastOp.call.log)].call = "save_episode"
          /\ \A k \in 1..Len(lastOp.call.episode[1].entity_ids) :
                \E i \in 1..Len(lastOp.call.log) :
                    lastOp.call.log[i] =
                        LogEntry("save_entity", lastOp.call.episode[1].entity_ids[k])
          /\ \A k \in 1..Len(lastOp.call.episode[1].relationship_ids) :
                \E i \in 1..Len(lastOp.call.log) :
                    lastOp.call.log[i] =
                        LogEntry("save_relationship",
                                 lastOp.call.episode[1].relationship_ids[k])

\* C9 witness: an add of two entities and a relationship returned while the
\* other task had a call in progress
C9_Witness ==
    /\ lastOp.op = "add" /\ ~ lastOp.raised
    /\ Len(lastOp.call.new_entities) = 2 /\ Len(lastOp.call.new_relationships) = 1
    /\ \E t \in Tasks : task[t].pc # "idle"

\* C10: the step in which an add returns writes exactly one Episode, under an
\* id no node had, listing the ids of the returned entities and relationships
\* in their order, under the tenant key of the call.
C10_OneEpisodePerAdd ==
    [][\A t \in Tasks :
          (task[t].pc = "save_episode" /\ task'[t].pc = "idle") =>
              /\ lastOp'.op = "add" /\ ~ lastOp'.raised /\ lastOp'.task = t
              /\ Cardinality(epNodes' \ epNodes) = 1
              /\ epNodes \subseteq epNodes'
              /\ Cardinality({i \in 1..Len(lastOp'.call.log) :
                                 lastOp'.call.log[i].call = "save_episode"}) = 1
              /\ \A n \in epNodes' \ epNodes :
                    /\ n.id = lastOp'.result.episode_id
                    /\ \A m \in epNodes \cup entNodes : m.id # n.id
                    /\ \A x \in edges : x.p.id # n.id
                    /\ n.entity_ids =
                          [i \in 1..Len(lastOp'.result.entities) |->
                              lastOp'.result.entities[i].id]
                    /\ n.relationship_ids =
                          [i \in 1..Len(lastOp'.result.relationships) |->
                              lastOp'.result.relationships[i].id]
                    /\ n.user_id = task[t].key
                    /\ n.user_id = lastOp'.result.tenant.tenant_id]_vars

-----------------------------------------------------------------------------
(* Statements about add, checked under SpecSeq *)

\* task t has extracted nothing
NothingExtracted(c) == c.new_entities = <<>> /\ c.new_relationships = <<>>

\* C11: when the extraction yields no entity and no relationship, add goes
\* straight to the Episode; returning, it has written no entity and no
\* relationship, and exactly one Episode whose entity_ids and relationship_ids
\* are empty.
C11_EmptyExtraction ==
    [][\A t \in Tasks :
          /\ (task[t].pc = "extract" /\ task'[t].pc # "extract"
                  /\ NothingExtracted(task'[t])) => task'[t].pc = "save_episode"
          /\ (task[t].pc = "save_episode" /\ NothingExtracted(task[t])
                  /\ task'[t].pc = "idle" /\ ~ lastOp'.raised) =>
                /\ entNodes' = entNodes /\ edges' = edges
                /\ \A i \in 1..Len(lastOp'.call.log) :
                      lastOp'.call.log[i].call
                          \notin {"save_entity", "save_relationship"}
                /\ lastOp'.result.entities = <<>>
                /\ lastOp'.result.relationships = <<>>
                /\ Cardinality(epNodes' \ epNodes) = 1
                /\ \A n \in epNodes' \ epNodes :
                      /\ n.id = lastOp'.result.episode_id
                      /\ n.entity_ids = <<>>
                      /\ n.relationship_ids = <<>>]_vars

\* C11 witness: an add that extracted nothing returned, on a tenant that
\* already holds entities
C11_Witness ==
    /\ lastOp.op = "add" /\ ~ lastOp.raised
    /\ NothingExtracted(lastOp.call)
    /\ \E n \in entNodes : n.user_id = Stored(lastOp.call.key)
    /\ \E n \in epNodes : n.id = lastOp.result.episode_id

\* C12: when a write of add raises, the exception reaches the caller, the
\* call makes no other step (no retry, no later write), everything it saved
\* before is still in the database, and no Episode of the call is written.
C12_WriteFailure ==
    [][\A t \in Tasks :
          (task[t].pc \in {"save_entities", "save_relationships", "save_episode"}
              /\ task'[t].pc = "idle" /\ lastOp'.raised) =>
                /\ lastOp'.task = t /\ lastOp'.result = "StoreError"
                /\ task'[t] = IdleTask
                /\ UNCHANGED <<entNodes, edges, epNodes>>
                /\ \A i \in 1..Len(task[t].log) :
                      /\ task[t].log[i].call = "save_entity" =>
                            \E n \in entNodes' : n.id = task[t].log[i].id
                      /\ task[t].log[i].call = "save_relationship" =>
                            \E x \in edges' : x.p.id = task[t].log[i].id
                      /\ task[t].log[i].call # "save_episode"
                /\ \A n \in epNodes' : n.id # IdText(task[t].count)]_vars

\* C12 witness: add saved an entity, and the write of its relationship raised
C12_Witness ==
    /\ lastOp.op = "add" /\ lastOp.raised /\ lastOp.result = "StoreError"
    /\ lastOp.call.pc = "save_relationships"
    /\ \E i \in 1..Len(lastOp.call.log) :
          /\ lastOp.call.log[i].call = "save_entity"
          /\ \E n \in entNodes : n.id = lastOp.call.log[i].id

-----------------------------------------------------------------------------
(* SpecRank: the sort and cut that end AsyncGraphMemory.search, applied to  *)
(* every short list of hits                                                *)

MaxHits == 3
MaxRankLimit == 3

\* the scores of the hits: 0, 0.5, 1/sqrt(2), 1 and -1
RankScores == {ScoreZero, ScoreHalf, Score(1, 2), Score(1, 1), Score(0 - 1, 1)}

\* a hit as the sort sees it; its id tells its place in the list the store
\* returned
RankedHit(i, score) ==
    [id |-> IdText(i), fact |-> <<"f">>, relation_type |-> TxtWorksAt,
     source_entity |-> <<>>, target_entity |-> <<>>, score |-> score]

HitLists ==
    UNION {{[i \in 1..n |-> RankedHit(i, f[i])] : f \in [1..n -> RankScores]} :
              n \in 0..MaxHits}

InitRank ==
    /\ fnArg \in [hits : HitLists, limit : 0..MaxRankLimit]
    /\ fnRet = <<>> /\ conn = None /\ life = None
    /\ sel = None /\ resolved = None
    /\ wireIn = None /\ wireDb = None /\ wireOut = None
    /\ entNodes = {} /\ edges = {} /\ epNodes = {}
    /\ lastOp = NoOp
    /\ MemUnused

\* AsyncGraphMemory.search: results.sort(...); results = results[:limit]
RankStep ==
    /\ fnRet = <<>>
    /\ fnRet' = <<RankHits(fnArg.hits, fnArg.limit)>>
    /\ UNCHANGED <<sel, resolved, wireIn, wireDb, wireOut, entNodes, edges,
                   epNodes, lastOp, memVars, fnArg, conn, life>>

NextRank == RankStep

SpecRank == InitRank /\ [][NextRank]_vars

\* the place a returned hit had in the list the store returned
PlaceOf(hit, hits) == CHOOSE i \in 1..Len(hits) : hits[i] = hit

\* C13: search returns the limit best hits, or all when there are fewer, by
\* non-increasing score, and hits of equal score in the order the store
\* returned them.
C13_RankedSearch ==
    fnRet # <<>> =>
        LET hits == fnArg.hits
            got  == fnRet[1]
        IN  /\ Len(got) <= fnArg.limit
            /\ Len(got) = IF Len(hits) < fnArg.limit THEN Len(hits)
                          ELSE fnArg.limit
            /\ \A i \in 1..Len(got) : \E k \in 1..Len(hits) : hits[k] = got[i]
            /\ \A i, j \in 1..Len(got) :
                  i < j =>
                    /\ ~ ScoreLess(got[i].score, got[j].score)
                    /\ ScoreEqual(got[i].score, got[j].score) =>
                          PlaceOf(got[i], hits) < PlaceOf(got[j], hits)
            /\ \A k \in 1..Len(hits) :
                  (\A i \in 1..Len(got) : got[i] # hits[k]) =>
                      \A i \in 1..Len(got) :
                          ~ ScoreLess(got[i].score, hits[k].score)

\* C13 witness: three hits, the first below the two others, which are of equal
\* score, cut to two results
C13_Witness ==
    /\ fnRet # <<>> /\ Len(fnArg.hits) = 3 /\ Len(fnRet[1]) = 2
    /\ ScoreEqual(fnRet[1][1].score, fnRet[1][2].score)
    /\ ScoreLess(fnArg.hits[1].score, fnRet[1][1].score)

-----------------------------------------------------------------------------
(* SpecSearch: search on a tenant whose entities have or lack a summary and *)
(* an embedding, and whose relationship has or lacks an embedding           *)

SearchPoolEntities ==
    {Entity(id, KeyA, <<"x">>, sm, m, 0) :
        id \in EntityIds, sm \in {<<>>, <<"s">>}, m \in {<<>>, <<1, 0>>, <<0, 1>>}}

SearchPoolRelationships ==
    {Relationship(<<"r", "1">>, KeyA, <<"e", "1">>, <<"e", "2">>, <<"f">>, m, 0) :
        m \in {<<>>, <<1, 0>>}}

NextSearch ==
    /\ UNCHANGED otherVarsStore
    /\ \/ \E e \in SearchPoolEntities : StoreSaveEntity(e)
       \/ \E r \in SearchPoolRelationships : StoreSaveRelationship(r)
       \/ \E limit \in Limits : MemSearch(QueryEmbedding, KeyA, limit)

SpecSearch == InitStore /\ [][NextSearch]_vars

\* h is the hit of a stored relationship
IsRelationshipHit(h) ==
    \E x \in edges :
        /\ h.id = x.p.id /\ h.fact = x.p.fact
        /\ h.relation_type = x.p.relation_type

\* h is the pseudo-fact of a stored entity
IsEntityFact(h) ==
    \E n \in entNodes :
        /\ h.id = n.id
        /\ h.relation_type = <<"e", "n", "t", "i", "t", "y">>
        /\ h.source_entity = n.name
        /\ h.target_entity = <<>>
        /\ h.fact = IF n.summary # <<>>
                    THEN n.name \o <<":", " ">> \o n.summary
                    ELSE n.name \o <<" ", "i", "s", " ", "a", " ">> \o n.entity_type

\* C14: the results of a search are all relationship hits or all entity
\* pseudo-facts; they are pseudo-facts only when the relationship search found
\* nothing, and each pseudo-fact has relation_type 'entity', no target_entity,
\* and the fact '{name}: {summary}', or '{name} is a {type}' when the entity
\* has no summary.
C14_EntityFallback ==
    lastOp.op = "search" =>
        LET res   == lastOp.results
            found == SearchRelationships(edges, lastOp.embedding, lastOp.user_id,
                                         lastOp.limit * 2)
        IN  /\ \/ \A i \in 1..Len(res) : IsRelationshipHit(res[i])
               \/ \A i \in 1..Len(res) : IsEntityFact(res[i])
            /\ (\E i \in 1..Len(res) : IsEntityFact(res[i])) => <<>> \in found
            /\ <<>> \notin found =>
                  /\ res # <<>>
                  /\ \A i \in 1..Len(res) :
                        IsRelationshipHit(res[i]) /\ ~ IsEntityFact(res[i])

\* C14 witness: the fallback returned two pseudo-facts, one of an entity with
\* a summary and one of an entity without, while the tenant holds a
\* relationship the relationship search did not return
C14_Witness ==
    /\ lastOp.op = "search" /\ Len(lastOp.results) = 2
    /\ edges # {}
    /\ \E i, j \in 1..2 :
          /\ lastOp.results[i].fact = <<"x", ":", " ", "s">>
          /\ lastOp.results[j].fact =
                <<"x", " ", "i", "s", " ", "a", " ">> \o TxtPerson

\* C14 second witness, of the other case: a relationship hit while the tenant
\* holds entities that have an embedding
C14_RelationshipCase ==
    /\ lastOp.op = "search" /\ Len(lastOp.results) = 1
    /\ IsRelationshipHit(lastOp.results[1])
    /\ \E n \in entNodes : n.embedding # <<>>

-----------------------------------------------------------------------------
(* SpecTraverse: get_related on the graphs over five entities *)

\* max_traversal_hops, the default of the configuration
MaxTraversalHops == 3
\* the largest hops a caller asks for
MaxHops == 5

\* the ids of the nodes an edge of es joins to a node of ids
Neighbours(es, ids) ==
    {x.target_id : x \in {y \in es : y.source_id \in ids}}
        \cup {x.source_id : x \in {y \in es : y.target_id \in ids}}

RECURSIVE ReachWithin(_, _, _)
\* (start)-[:RELATES_TO*1..hops]-(e): the ids joined to ids by a path of at
\* most hops edges, taken in either direction
ReachWithin(es, ids, hops) ==
    IF hops <= 0 THEN ids
    ELSE ReachWithin(es, ids \cup Neighbours(es, ids), hops - 1)

\* FalkorDBGraphStore.traverse: every list it may return (the query has no
\* ORDER BY). user_id is None when the caller passes none.
Traverse(nodes, es, entity_id, hops, user_id) ==
    LET start == {n \in nodes : n.id = Stored(entity_id)}
        near  == ReachWithin(es, {n.id : n \in start}, hops)
        rows  == {n \in nodes :
                     /\ n.id \in near
                     /\ \A m \in start : n.id # m.id
                     /\ Truthy(user_id) => n.user_id = Stored(user_id)}
    IN  {[i \in 1..Len(s) |-> RecordToEntity(s[i])] : s \in Orders(rows)}

\* get_related without the clamp
GetRelatedUnclamped(nodes, es, entity_id, hops) ==
    Traverse(nodes, es, entity_id, hops, None)

\* AsyncGraphMemory.get_related: hops = min(hops, max_traversal_hops), then
\* traverse(entity_id, hops)
GetRelated(nodes, es, entity_id, hops) ==
    Traverse(nodes, es, entity_id,
             IF hops < MaxTraversalHops THEN hops ELSE MaxTraversalHops, None)

TraverseIds == {IdText(n) : n \in 1..5}
TraverseEntities ==
    {Entity(IdText(n), IF n = 5 THEN KeyB ELSE KeyA, <<"x">>, <<>>, <<>>, 0) :
        n \in 1..5}

\* the relationships a step may save: a chain over the five entities, its
\* last edge pointing backwards, and a chord
TraverseRelationships ==
    {Relationship(<<"r", Digit(k[1])>>, KeyA, IdText(k[2]), IdText(k[3]),
                  <<"f">>, <<>>, 0) :
        k \in {<<1, 1, 2>>, <<2, 2, 3>>, <<3, 3, 4>>, <<4, 5, 4>>, <<5, 1, 3>>}}

\* the store after save_entities of the five entities
InitTraverse ==
    /\ entNodes = {EntityProps(e) : e \in TraverseEntities}
    /\ edges = {} /\ epNodes = {}
    /\ lastOp = NoOp
    /\ sel = None /\ resolved = None
    /\ wireIn = None /\ wireDb = None /\ wireOut = None
    /\ LifeUnused
    /\ MemUnused

\* AsyncGraphMemory.get_related
MemGetRelated(entity_id, hops) ==
    /\ \E res \in GetRelated(entNodes, edges, entity_id, hops) :
          lastOp' = [op |-> "get_related", entity_id |-> entity_id,
                     hops |-> hops, entities |-> res]
    /\ UNCHANGED dbVars

NextTraverse ==
    /\ UNCHANGED otherVarsStore
    /\ \/ \E r \in TraverseRelationships : StoreSaveRelationship(r)
       \/ \E id \in TraverseIds, hops \in 1..MaxHops : MemGetRelated(id, hops)

SpecTraverse == InitTraverse /\ [][NextTraverse]_vars

\* C15: on every graph, from every start entity, get_related with hops above
\* max_traversal_hops returns what it returns with hops = max_traversal_hops.
C15_HopsClamped ==
    /\ \A id \in TraverseIds, hops \in (MaxTraversalHops + 1)..MaxHops :
          GetRelated(entNodes, edges, id, hops)
              = GetRelated(entNodes, edges, id, MaxTraversalHops)
    /\ (lastOp.op = "get_related" /\ lastOp.hops > MaxTraversalHops) =>
          lastOp.entities
              \in Traverse(entNodes, edges, lastOp.entity_id, MaxTraversalHops, None)

\* C15 witness: get_related was called with hops above the ceiling from an
\* entity that has another entity more than max_traversal_hops edges away,
\* and returned some
C15_Witness ==
    /\ lastOp.op = "get_related" /\ lastOp.hops > MaxTraversalHops
    /\ lastOp.entities # <<>>
    /\ Traverse(entNodes, edges, lastOp.entity_id, lastOp.hops, None)
          # Traverse(entNodes, edges, lastOp.entity_id, MaxTraversalHops, None)

-----------------------------------------------------------------------------
(* The store of the orchestrator, checked under Spec *)

\* C16: whatever public operations overlap on one orchestrator, at most one
\* graph store, and so one backend client, is ever constructed.
C16_SingleStore == storesMade <= 1

-----------------------------------------------------------------------------
(* SpecLife: initialize() and close() called on one FalkorDBGraphStore by   *)
(* tasks that may overlap. Each command sent to the server is one step; a   *)
(* task is suspended while its command is under way.                        *)

MaxLifeCalls == 3

\* the store as __init__ leaves it. pool is the connection pool of the client
\* made last: "none" before any client, then "open" or "disconnected"
NewStore ==
    [client |-> FALSE, initialized |-> FALSE, pool |-> "none", clientsMade |-> 0,
     configSent |-> 0, warmupSent |-> 0, callsLeft |-> MaxLifeCalls]

IdleLife == [pc |-> "idle", failed |-> FALSE]

InitLife ==
    /\ conn = NewStore
    /\ life = [t \in Tasks |-> IdleLife]
    /\ fnArg = None /\ fnRet = None
    /\ lastOp = NoOp
    /\ sel = None /\ resolved = None
    /\ wireIn = None /\ wireDb = None /\ wireOut = None
    /\ entNodes = {} /\ edges = {} /\ epNodes = {}
    /\ MemUnused

\* a call of the store ends: what it was, and whether it raised
LifeEnded(t, op, raised) ==
    /\ life' = [life EXCEPT ![t] = IdleLife]
    /\ lastOp' = [op |-> op, task |-> t, raised |-> raised]

\* _ensure_client: a client is made when the store holds none
EnsureClient(c) ==
    IF c.client THEN c
    ELSE [c EXCEPT !.client = TRUE, !.pool = "open", !.clientsMade = @ + 1]

\* initialize(): "if self._initialized: return", else _ensure_client, up to
\* the first command
LifeInitialize(t) ==
    /\ life[t].pc = "idle" /\ conn.callsLeft > 0
    /\ IF conn.initialized
       THEN /\ conn' = [conn EXCEPT !.callsLeft = @ - 1]
            /\ LifeEnded(t, "initialize", FALSE)
       ELSE /\ conn' = [EnsureClient(conn) EXCEPT !.callsLeft = @ - 1]
            /\ life' = [life EXCEPT ![t].pc = "config"]
            /\ lastOp' = NoOp

\* initialize(): GRAPH.CONFIG SET RESULTSET_FORMAT COMPACT. An exception of
\* the command is logged and dropped, and so is the AttributeError when a
\* close() has taken the client away: then nothing is sent.
LifeConfig(t) ==
    /\ life[t].pc = "config"
    /\ conn' = IF conn.client THEN [conn EXCEPT !.configSent = @ + 1] ELSE conn
    /\ life' = [life EXCEPT ![t].pc = "warmup"]
    /\ lastOp' = NoOp

\* initialize(): the warm-up query RETURN 1, then self._initialized = True
LifeWarmup(t) ==
    /\ life[t].pc = "warmup"
    /\ conn' = [(IF conn.client THEN [conn EXCEPT !.warmupSent = @ + 1] ELSE conn)
                   EXCEPT !.initialized = TRUE]
    /\ LifeEnded(t, "initialize", FALSE)

\* close(): "if self._client:", up to the client's close
LifeClose(t) ==
    /\ life[t].pc = "idle" /\ conn.callsLeft > 0
    /\ conn' = [conn EXCEPT !.callsLeft = @ - 1]
    /\ IF conn.client
       THEN /\ life' = [life EXCEPT ![t].pc = "client_close"]
            /\ lastOp' = NoOp
       ELSE LifeEnded(t, "close", FALSE)

\* close(): await self._client.close(), which returns or raises. When another
\* close() has set _client to None meanwhile, this line and the finally
\* clause raise AttributeError.
LifeClientClose(t, fails) ==
    /\ life[t].pc = "client_close"
    /\ UNCHANGED conn
    /\ IF conn.client
       THEN /\ life' = [life EXCEPT ![t] = [pc |-> "disconnect", failed |-> fails]]
            /\ lastOp' = NoOp
       ELSE LifeEnded(t, "close", TRUE)

\* The store's client reference once the finally clause has disconnected the
\* pool: "self._client = None" follows the try statement, so it is skipped
\* when the exception of the client's close goes on
ClientAfterClose(failed) == failed

\* close(): finally: await self._client.connection_pool.disconnect(); then
\* the exception of the client's close goes on, or self._client = None
LifeDisconnect(t) ==
    /\ life[t].pc = "disconnect"
    /\ IF conn.client
       THEN /\ conn' = [conn EXCEPT !.pool = "disconnected",
                                    !.client = ClientAfterClose(life[t].failed)]
            /\ LifeEnded(t, "close", life[t].failed)
       ELSE /\ UNCHANGED conn
            /\ LifeEnded(t, "close", TRUE)

NextLife ==
    /\ UNCHANGED <<sel, resolved, wireIn, wireDb, wireOut, entNodes, edges,
                   epNodes, memVars, fnArg, fnRet>>
    /\ \E t \in Tasks :
          \/ LifeInitialize(t)
          \/ LifeConfig(t)
          \/ LifeWarmup(t)
          \/ LifeClose(t)
          \/ \E fails \in BOOLEAN : LifeClientClose(t, fails)
          \/ LifeDisconnect(t)

SpecLife == InitLife /\ [][NextLife]_vars

\* C17: however many initialize() calls are made on one store, one after the
\* other or overlapping, the result-format command and the warm-up query are
\* each sent at most once, and a store on which an initialize() returned is
\* initialized.
C17_InitializeOnce ==
    /\ conn.configSent <= 1
    /\ conn.warmupSent <= 1
    /\ lastOp.op = "initialize" => conn.initialized

\* C18: a close() that found an open client ends with the pool disconnected
\* and the store holding no client, whether the client's close raised or not;
\* a close() on a store that holds no client changes nothing.
C18_CloseReleases ==
    [][\A t \in Tasks :
          /\ (life[t].pc = "disconnect" /\ conn.client /\ life'[t].pc = "idle") =>
                conn'.pool = "disconnected" /\ ~ conn'.client
          /\ (life[t].pc = "idle" /\ ~ conn.client /\ lastOp'.op = "close"
                  /\ lastOp'.task = t) =>
                /\ ~ lastOp'.raised
                /\ conn' = [conn EXCEPT !.callsLeft = @ - 1]]_vars

-----------------------------------------------------------------------------
(* Statements about delete and get_entity, checked under SpecStore *)

\* C19: delete(id) for an id with no stored entity returns success False,
\* calls no delete_entity and leaves the store as it was; get_entity(id) for
\* such an id returns None and does not read the relationships. Neither
\* raises.
C19_NotFoundExplicit ==
    [][/\ (lastOp'.op = "delete" /\ GetEntity(entNodes, lastOp'.entity_id) = <<>>) =>
             /\ lastOp'.success = FALSE
             /\ lastOp'.calls = <<"get_entity">>
             /\ UNCHANGED dbVars
       /\ (lastOp'.op = "get_entity"
               /\ GetEntity(entNodes, lastOp'.entity_id) = <<>>) =>
             /\ lastOp'.result = <<>>
             /\ lastOp'.calls = <<"get_entity">>
             /\ UNCHANGED dbVars]_vars

\* a delete of an id that is not stored has returned while another entity is
\* stored
C19_Witness ==
    /\ lastOp.op = "delete"
    /\ ~ lastOp.success
    /\ entNodes # {}
    /\ \A n \in entNodes : n.id # Stored(lastOp.entity_id)

-----------------------------------------------------------------------------
(* SpecEcho: one caller going through the wrapper's five operations, one    *)
(* call after the other, with every combination of the three selectors.     *)

MaxEchoCalls == 2

EchoSelectors ==
    [user_id : {None, <<"a">>}, agent_id : {None, <<"g">>},
     session_id : {None, <<"s">>}]

InitEcho == InitMem /\ addsLeft = 1 /\ callsLeft = MaxEchoCalls

NextEcho ==
    /\ UNCHANGED otherVarsMem
    /\ \/ \E s \in EchoSelectors : CallAdd(1, s, TurnsMessage)
       \/ \E s \in EchoSelectors : CallSearch(1, s, 1)
       \/ \E s \in EchoSelectors : CallGetAllEntities(1, s, DefaultLimit)
       \/ \E s \in EchoSelectors : CallGetAllRelationships(1, s, DefaultLimit)
       \/ \E s \in EchoSelectors : CallDeleteAll(1, s)
       \/ \E names \in Mentions, link \in BOOLEAN : AddExtract(1, names, link)
       \/ Step(1)

SpecEcho == InitEcho /\ [][NextEcho]_vars

WrapperOps ==
    {"add", "search", "get_all_entities", "get_all_relationships", "delete_all"}

\* the key TenantId resolves from the selectors of a call
ResolvedKey(s) == Build(s.user_id, s.agent_id, s.session_id).id

\* C20: for each of the five wrapper operations and every combination of
\* selectors that resolves, the user_id handed to the orchestrator is the
\* resolved tenant key, and the result that comes back carries that key as
\* the tenant_id of its tenant record.
C20_TenantEcho ==
    [][/\ \A t \in Tasks :
             Starts(t) => /\ task'[t].op \in WrapperOps
                          /\ task'[t].key = ResolvedKey(task'[t].sel)
       /\ (lastOp'.op \in WrapperOps /\ ~ lastOp'.raised) =>
             /\ lastOp'.call.key = ResolvedKey(lastOp'.call.sel)
             /\ lastOp'.result.tenant.tenant_id = lastOp'.call.key
             /\ lastOp'.result.tenant.user_id = lastOp'.call.sel.user_id
             /\ lastOp'.result.tenant.agent_id = lastOp'.call.sel.agent_id
             /\ lastOp'.result.tenant.session_id = lastOp'.call.sel.session_id]_vars

\* a search with a user and an agent selector has returned a fact of the
\* combined tenant
C20_Witness ==
    /\ lastOp.op = "search" /\ ~ lastOp.raised
    /\ Present(lastOp.call.sel.user_id) /\ Present(lastOp.call.sel.agent_id)
    /\ ~ Present(lastOp.call.sel.session_id)
    /\ lastOp.result.results # <<>>
    /\ lastOp.result.tenant.tenant_type = "combined"

-----------------------------------------------------------------------------
(* Statements about relationships, checked under SpecStore *)

\* C21: after any sequence of save_relationship calls the store holds at most
\* one edge for each relationship id.
C21_OneEdgePerId == \A x, y \in edges : x.p.id = y.p.id => x = y

\* C22: the source entity and the target entity of every stored edge carry
\* the tenant key of the edge.
C22_EndpointsInTenant ==
    \A x \in edges :
        \A n \in entNodes :
            n.id \in {x.source_id, x.target_id} => n.user_id = x.p.user_id

-----------------------------------------------------------------------------
(* Statements about traversal and delete *)

\* C23: get_related(id, hops) returns only entities carrying the tenant key
\* of the start entity, never the start entity, and no entity twice.
C23_TraversalInTenant ==
    lastOp.op = "get_related" =>
        LET got == lastOp.entities
        IN  /\ \A i \in 1..Len(got) :
                  /\ got[i].id # lastOp.entity_id
                  /\ \A n \in entNodes :
                        n.id = Stored(lastOp.entity_id) =>
                            got[i].user_id = n.user_id
            /\ \A i, j \in 1..Len(got) : got[i].id = got[j].id => i = j

(* SpecDelete: delete and the store's writes on a graph of three entities *)

DeleteIds == {IdText(n) : n \in 1..3}
DeleteEntities == {Entity(id, KeyA, <<"x">>, <<>>, <<>>, 0) : id \in DeleteIds}

\* a triangle over the three entities
DeleteRelationships ==
    {Relationship(<<"r", Digit(k[1])>>, KeyA, IdText(k[2]), IdText(k[3]),
                  <<"f">>, <<>>, 0) :
        k \in {<<1, 1, 2>>, <<2, 2, 3>>, <<3, 3, 1>>}}

DeleteEpisodes ==
    {Episode(<<"p", "1">>, KeyA, <<"c">>, <<id>>, <<>>, 0) : id \in DeleteIds}

\* the store after save_entities of the three entities
InitDelete ==
    /\ entNodes = {EntityProps(e) : e \in DeleteEntities}
    /\ edges = {} /\ epNodes = {}
    /\ lastOp = NoOp
    /\ sel = None /\ resolved = None
    /\ wireIn = None /\ wireDb = None /\ wireOut = None
    /\ LifeUnused
    /\ MemUnused

NextDelete ==
    /\ UNCHANGED otherVarsStore
    /\ \/ \E e \in DeleteEntities : StoreSaveEntity(e)
       \/ \E r \in DeleteRelationships : StoreSaveRelationship(r)
       \/ \E ep \in DeleteEpisodes : StoreSaveEpisode(ep)
       \/ \E id \in DeleteIds : MemDelete(id)

SpecDelete == InitDelete /\ [][NextDelete]_vars

\* the edges that have the entity as source or as target
IncidentTo(es, entity_id) ==
    {x \in es : Stored(entity_id) \in {x.source_id, x.target_id}}

\* C24: delete(id) of a stored entity removes the entity and every edge that
\* has it as source or target, and leaves every other entity, every other
\* edge and every episode as they were.
C24_DeleteCascades ==
    [][(lastOp'.op = "delete" /\ lastOp'.success) =>
          LET id == lastOp'.entity_id
          IN  /\ GetEntity(entNodes', id) = <<>>
              /\ IncidentTo(edges', id) = {}
              /\ entNodes' = {n \in entNodes : n.id # Stored(id)}
              /\ edges' = edges \ IncidentTo(edges, id)
              /\ epNodes' = epNodes]_vars

\* a delete took an entity and its two edges away and left the third edge,
\* the other two entities and an episode that names the deleted entity
C24_Witness ==
    /\ lastOp.op = "delete" /\ lastOp.success
    /\ Cardinality(edges) = 1
    /\ Cardinality(entNodes) = 2
    /\ \E ep \in epNodes : ep.entity_ids = <<Stored(lastOp.entity_id)>>

-----------------------------------------------------------------------------
(* SpecSimilar: search_entities and search_relationships of the store on   *)
(* items of several embeddings and ages. The ceiling of 500 candidates is   *)
(* scaled to SimCeiling, so that a tenant holds more items than the ceiling.*)

SimCeiling == 2

\* the key of a user identifier with one space, which the key of SelUserWide
\* is stored as
KeyNarrow == Build(<<"a", SP, "b">>, None, None).id
KeyWide == Build(SelUserWide.user_id, None, None).id

\* three entities of one tenant, the oldest first, and one of another
SimEntities ==
    {Entity(IdText(1), KeyA, <<"x">>, <<>>, m, 0) : m \in {<<>>, <<1, 0>>}}
        \cup {Entity(IdText(2), KeyA, <<"x">>, <<>>, m, 1) :
                 m \in {<<1, 1>>, <<0, 0>>}}
        \cup {Entity(IdText(3), KeyA, <<"x">>, <<>>, m, 2) :
                 m \in {<<1, 0>>, <<0, 1>>}}
        \cup {Entity(IdText(4), KeyNarrow, <<"x">>, <<>>, <<1, 0>>, 0)}

SimRelationships ==
    {Relationship(<<"r", "1">>, KeyA, IdText(1), IdText(2), <<"f">>, m, 0) :
        m \in {<<>>, <<1, 0>>}}
        \cup {Relationship(<<"r", "2">>, KeyA, IdText(2), IdText(3), <<"f">>,
                           <<1, 1>>, 1),
              Relationship(<<"r", "3">>, KeyA, IdText(1), IdText(3), <<"f">>,
                           <<0, 0>>, 2)}

SimQueries == {<<1, 0>>, <<0, 1>>}
SimKeys == {KeyA, KeyWide}

\* FalkorDBGraphStore.search_entities, called by a user of the store
StoreSearchEntities(embedding, user_id, limit) ==
    /\ \E got \in SearchEntitiesWithin(entNodes, embedding, user_id, limit,
                                       SimCeiling) :
          lastOp' = [op |-> "search_entities", embedding |-> embedding,
                     user_id |-> user_id, limit |-> limit, results |-> got]
    /\ UNCHANGED dbVars

\* FalkorDBGraphStore.search_relationships
StoreSearchRelationships(embedding, user_id, limit) ==
    /\ \E got \in SearchRelationshipsWithin(edges, embedding, user_id, limit,
                                            SimCeiling) :
          lastOp' = [op |-> "search_relationships", embedding |-> embedding,
                     user_id |-> user_id, limit |-> limit, results |-> got]
    /\ UNCHANGED dbVars

NextSimilar ==
    /\ UNCHANGED otherVarsStore
    /\ \/ \E e \in SimEntities : StoreSaveEntity(e)
       \/ \E r \in SimRelationships : StoreSaveRelationship(r)
       \/ \E q \in SimQueries, k \in SimKeys, l \in Limits :
             StoreSearchEntities(q, k, l)
       \/ \E q \in SimQueries, k \in SimKeys, l \in Limits :
             StoreSearchRelationships(q, k, l)

SpecSimilar == InitStore /\ [][NextSimilar]_vars

\* the stored items a search of the last kind ranges over, as records
SimStored ==
    IF lastOp.op = "search_entities"
    THEN {RecordToEntity(n) : n \in entNodes}
    ELSE {RecordToRelationship(x) : x \in edges}

\* the items of the tenant of the last search that fewer than SimCeiling items
\* of the tenant are newer than
SimRecent ==
    LET mine == {x \in SimStored : x.user_id = lastOp.user_id}
    IN  {x \in mine :
            Cardinality({y \in mine : y.created_at > x.created_at}) < SimCeiling}

SimScore(x) == StoreCosineSimilarity(lastOp.embedding, x.embedding)

\* what a similarity search of the store is to return
SimilarityContract ==
    LET got == lastOp.results
    IN  /\ Len(got) <= lastOp.limit
        /\ \A i, j \in 1..Len(got) : got[i] = got[j] => i = j
        /\ \A i \in 1..Len(got) :
              /\ got[i].user_id = lastOp.user_id
              /\ got[i].embedding # <<>>
              /\ got[i] \in SimRecent
        /\ \A i, j \in 1..Len(got) :
              i < j => ~ ScoreLess(SimScore(got[i]), SimScore(got[j]))
        /\ \A c \in SimRecent :
              (c.embedding # <<>> /\ \A i \in 1..Len(got) : got[i] # c) =>
                  /\ Len(got) = lastOp.limit
                  /\ \A i \in 1..Len(got) :
                        ~ ScoreLess(SimScore(got[i]), SimScore(c))
        /\ \A x \in SimStored :
              (x.embedding # <<>> /\ DotTo(x.embedding, x.embedding,
                                          Len(x.embedding)) = 0) =>
                  SimScore(x) = ScoreZero

IsStoreSearch == lastOp.op \in {"search_entities", "search_relationships"}

\* C25: search_entities and search_relationships with query q, tenant t and
\* limit K return at most K items, all of tenant t and with an embedding,
\* among the newest items of the tenant up to the ceiling, in non-increasing
\* cosine similarity to q, and no candidate left out scores higher than a
\* returned one; a zero-norm vector scores 0.
C25_SimilaritySearch == IsStoreSearch => SimilarityContract

\* the same for the tenant keys that are stored as they are written
C25_OnPlainKeys ==
    (IsStoreSearch /\ Stored(lastOp.user_id) = lastOp.user_id) =>
        SimilarityContract

-----------------------------------------------------------------------------
(* SpecCosine: the two cosine functions applied to one pair of vectors *)

MaxDim == 2
VectorEntries == {-1, 0, 1}
Vectors == UNION {[1..n -> VectorEntries] : n \in 0..MaxDim}

InitCosine ==
    /\ fnArg \in [a : Vectors, b : Vectors]
    /\ fnRet = <<>>
    /\ conn = None /\ life = None
    /\ entNodes = {} /\ edges = {} /\ epNodes = {}
    /\ lastOp = NoOp
    /\ sel = None /\ resolved = None
    /\ wireIn = None /\ wireDb = None /\ wireOut = None
    /\ MemUnused

\* the score search_relationships sorts an item by, and the score
\* AsyncGraphMemory.search then reports for it
CosineStep ==
    /\ fnRet = <<>>
    /\ fnRet' = <<[store  |-> StoreCosineSimilarity(fnArg.a, fnArg.b),
                   memory |-> CosineSimilarity(fnArg.a, fnArg.b)]>>
    /\ UNCHANGED <<fnArg, conn, life, entNodes, edges, epNodes, lastOp, sel,
                   resolved, wireIn, wireDb, wireOut, memVars>>

NextCosine == CosineStep

SpecCosine == InitCosine /\ [][NextCosine]_vars

\* C30: the orchestrator's cosine function and the store's return the same
\* value for every pair of vectors, of equal or unequal length, zero vectors
\* included.
C30_SameCosine ==
    fnRet # <<>> =>
        /\ ~ ScoreLess(fnRet[1].store, fnRet[1].memory)
        /\ ~ ScoreLess(fnRet[1].memory, fnRet[1].store)

\* the same for the pairs of vectors of one length
C30_OnEqualLengths ==
    (fnRet # <<>> /\ Len(fnArg.a) = Len(fnArg.b)) =>
        /\ ~ ScoreLess(fnRet[1].store, fnRet[1].memory)
        /\ ~ ScoreLess(fnRet[1].memory, fnRet[1].store)

-----------------------------------------------------------------------------
(* SpecDecode: _parse_response on the compact responses of the server.      *)
(* A Python value is a record of its kind k with a number n, a text s and   *)
(* its items: the elements of a list, the key/value pairs of a dict.        *)

PyValue(k, n, s, items) == [k |-> k, n |-> n, s |-> s, items |-> items]
PyNone == PyValue("none", 0, "", <<>>)
PyStr(s) == PyValue("str", 0, s, <<>>)
PyInt(n) == PyValue("int", n, "", <<>>)
PyBool(b) == PyValue("bool", IF b THEN 1 ELSE 0, "", <<>>)
\* a float, counted in tenths
PyFloat(n) == PyValue("float", n, "", <<>>)
PyList(items) == PyValue("list", 0, "", items)
PyPair(key, value) == PyValue("pair", 0, key, <<value>>)
PyDict(pairs) == PyValue("dict", 0, "", pairs)
\* a node of the graph with its property map, before it is encoded
PyNode(n, props) == PyValue("node", n, "", <<props>>)

\* isinstance(v, (list, tuple)), and isinstance(v, int), which holds for bool
IsList(v) == v.k = "list"
IsInt(v) == v.k \in {"int", "bool"}

\* bool(v)
PyTruthy(v) ==
    IF v.k \in {"int", "bool", "float"} THEN v.n # 0
    ELSE IF v.k = "str" THEN v.s # ""
    ELSE IF v.k = "none" THEN FALSE
    ELSE v.items # <<>>

\* the texts of the doubles of the model, and float(text)
FloatText(n) == IF n = 15 THEN "1.5" ELSE "0.0"
ParseFloat(text) == IF text = "1.5" THEN 15 ELSE 0

\* int(data) and float(data) of a payload
ToInt(data) == IF data.k = "none" THEN PyInt(0) ELSE PyInt(data.n)
ToFloat(data) ==
    IF data.k = "none" THEN PyFloat(0)
    ELSE IF data.k = "str" THEN PyFloat(ParseFloat(data.s))
    ELSE PyFloat(data.n * 10)

\* result[key] = value on a dict: a key that is there keeps its place
DictSet(pairs, key, value) ==
    IF \E i \in 1..Len(pairs) : pairs[i].s = key
    THEN [i \in 1..Len(pairs) |->
             IF pairs[i].s = key THEN PyPair(key, value) ELSE pairs[i]]
    ELSE Append(pairs, PyPair(key, value))

RECURSIVE ParseCompactValue(_), ParseMapFrom(_, _, _), ParseItems(_)

\* a list decoded with its elements in the opposite order
ReversedItems(items) ==
    [i \in 1..Len(items) |-> ParseCompactValue(items[Len(items) + 1 - i])]

\* [self._parse_compact_value(item) for item in data]
ParseItems(items) ==
    IF items = <<>> THEN <<>>
    ELSE <<ParseCompactValue(Head(items))>> \o ParseItems(Tail(items))

\* _parse_compact_map, the while loop from index i (counted from 1) on
ParseMapFrom(data, i, result) ==
    IF ~ (i < Len(data.items)) THEN result
    ELSE IF data.items[i].k = "str"
    THEN ParseMapFrom(data, i + 2,
             DictSet(result, data.items[i].s,
                     ParseCompactValue(data.items[i + 1])))
    ELSE ParseMapFrom(data, i + 1, result)

\* FalkorDBGraphStore._parse_compact_map
ParseCompactMap(data) ==
    IF ~ IsList(data) THEN PyDict(<<>>)
    ELSE PyDict(ParseMapFrom(data, 1, <<>>))

\* FalkorDBGraphStore._parse_compact_value
ParseCompactValue(value) ==
    LET typed == /\ IsList(value) /\ Len(value.items) = 2
                 /\ IsInt(value.items[1])
                 /\ value.items[1].n \in {1, 2, 3, 4, 5, 6, 8, 10}
        type_id == value.items[1].n
        data == value.items[2]
    IN  IF ~ IsList(value) \/ value.items = <<>> THEN value
        ELSE IF typed
        THEN CASE type_id = 1 -> PyNone
               [] type_id = 2 -> data
               [] type_id = 3 -> ToInt(data)
               [] type_id = 4 -> PyBool(PyTruthy(data))
               [] type_id = 5 -> ToFloat(data)
               [] type_id = 6 -> IF IsList(data) THEN PyList(ParseItems(data.items))
                                 ELSE data
               [] type_id = 10 -> ParseCompactMap(data)
               [] type_id = 8 -> IF IsList(data) /\ Len(data.items) >= 3
                                 THEN ParseCompactValue(data.items[3])
                                 ELSE PyDict(<<>>)
        ELSE IF IsList(value.items[1]) THEN ParseCompactValue(value.items[1])
        ELSE value

\* FalkorDBGraphStore._normalize_header
NormalizeHeader(header) ==
    IF header.k = "str" THEN header.s
    ELSE IF IsList(header) /\ header.items # <<>>
    THEN header.items[Len(header.items)].s
    ELSE ""

RECURSIVE ParseRow(_, _, _, _)
\* _parse_response, the loop over the values of one row from index idx on
ParseRow(header, row, idx, record) ==
    IF idx > Len(row.items) THEN record
    ELSE ParseRow(header, row, idx + 1,
             IF idx <= Len(header.items)
             THEN DictSet(record, NormalizeHeader(header.items[idx]),
                          ParseCompactValue(row.items[idx]))
             ELSE record)

RECURSIVE ParseRows(_, _)
\* _parse_response, the loop over the rows: a row that is no list and an
\* empty record are passed over
ParseRows(header, rows) ==
    IF rows = <<>> THEN <<>>
    ELSE LET row == Head(rows)
             record == ParseRow(header, row, 1, <<>>)
         IN  (IF IsList(row) /\ record # <<>> THEN <<PyDict(record)>> ELSE <<>>)
                 \o ParseRows(header, Tail(rows))

\* FalkorDBGraphStore._parse_response: the list of records
ParseResponse(response) ==
    IF ~ IsList(response) \/ response.items = <<>> THEN <<>>
    ELSE LET header == response.items[1]
             rows == IF Len(response.items) > 1 /\ IsList(response.items[2])
                     THEN response.items[2].items ELSE <<>>
         IN  IF ~ IsList(header) \/ header.items = <<>> THEN <<>>
             ELSE ParseRows(header, rows)

RECURSIVE Encoded(_), EncodedItems(_), EncodedPairs(_)
\* the tagged value the server sends for a value: [type, payload], with the
\* type codes of the docstring of _parse_compact_value
Encoded(v) ==
    CASE v.k = "none" -> PyList(<<PyInt(1), PyNone>>)
      [] v.k = "str" -> PyList(<<PyInt(2), v>>)
      [] v.k = "int" -> PyList(<<PyInt(3), v>>)
      [] v.k = "bool" -> PyList(<<PyInt(4), v>>)
      [] v.k = "float" -> PyList(<<PyInt(5), PyStr(FloatText(v.n))>>)
      [] v.k = "list" -> PyList(<<PyInt(6), PyList(EncodedItems(v.items))>>)
      [] v.k = "dict" -> PyList(<<PyInt(10), PyList(EncodedPairs(v.items))>>)
      [] v.k = "node" ->
            PyList(<<PyInt(8),
                     PyList(<<PyInt(v.n), PyList(<<PyInt(0)>>),
                              Encoded(v.items[1])>>)>>)

EncodedItems(items) ==
    IF items = <<>> THEN <<>>
    ELSE <<Encoded(Head(items))>> \o EncodedItems(Tail(items))

\* key1, [type, val1], key2, [type, val2], ...
EncodedPairs(pairs) ==
    IF pairs = <<>> THEN <<>>
    ELSE <<PyStr(Head(pairs).s), Encoded(Head(pairs).items[1])>>
             \o EncodedPairs(Tail(pairs))

\* the response [header, rows] for the named columns and the rows of values;
\* a column of the header is [column type, name]
EncodedResponse(cols, rows) ==
    PyList(<<PyList([i \in 1..Len(cols) |-> PyList(<<PyInt(1), PyStr(cols[i])>>)]),
             PyList([r \in 1..Len(rows) |-> PyList(EncodedItems(rows[r]))])>>)

RECURSIVE Decoded(_), DecodedItems(_)
\* the value a tagged value stands for: a node stands for its property map
Decoded(v) ==
    CASE v.k = "node" -> Decoded(v.items[1])
      [] v.k = "list" -> PyList(DecodedItems(v.items))
      [] v.k = "dict" ->
            PyDict([i \in 1..Len(v.items) |->
                       PyPair(v.items[i].s, Decoded(v.items[i].items[1]))])
      [] OTHER -> v

DecodedItems(items) ==
    IF items = <<>> THEN <<>>
    ELSE <<Decoded(Head(items))>> \o DecodedItems(Tail(items))

MaxRows == 2

DecodeScalars ==
    {PyNone, PyStr("a"), PyInt(7), PyBool(TRUE), PyBool(FALSE), PyFloat(15)}
DecodeMaps ==
    {PyDict(<<>>),
     PyDict(<<PyPair("p", PyStr("a")), PyPair("q", PyInt(7))>>),
     PyDict(<<PyPair("p", PyList(<<PyFloat(15), PyNone>>))>>)}
DecodeLists ==
    {PyList(<<>>), PyList(<<PyInt(7), PyStr("a")>>),
     PyList(<<PyList(<<PyInt(7)>>), PyBool(FALSE), PyInt(7)>>)}
        \cup {PyList(<<m>>) : m \in DecodeMaps}
DecodeValues ==
    DecodeScalars \cup DecodeMaps \cup DecodeLists
        \cup {PyNode(3, m) : m \in DecodeMaps}

\* the rows of the responses with two columns
DecodePairs ==
    {<<PyInt(7), PyStr("a")>>, <<PyNone, PyNone>>,
     <<PyNode(3, PyDict(<<PyPair("p", PyStr("a"))>>)), PyList(<<PyInt(7)>>)>>}

DecodeResponses ==
    UNION {[cols : {<<"c">>}, rows : [1..n -> {<<v>> : v \in DecodeValues}]] :
              n \in 0..MaxRows}
        \cup UNION {[cols : {<<"c", "d">>}, rows : [1..n -> DecodePairs]] :
                       n \in 0..MaxRows}
        \cup UNION {[cols : {<<>>}, rows : [1..n -> DecodePairs]] : n \in 0..1}

InitDecode ==
    /\ fnArg \in DecodeResponses
    /\ fnRet = <<>>
    /\ conn = None /\ life = None
    /\ entNodes = {} /\ edges = {} /\ epNodes = {}
    /\ lastOp = NoOp
    /\ sel = None /\ resolved = None
    /\ wireIn = None /\ wireDb = None /\ wireOut = None
    /\ MemUnused

\* the response arrives and _parse_response decodes it
DecodeStep ==
    /\ fnRet = <<>>
    /\ fnRet' = <<ParseResponse(EncodedResponse(fnArg.cols, fnArg.rows))>>
    /\ UNCHANGED <<fnArg, conn, life, entNodes, edges, epNodes, lastOp, sel,
                   resolved, wireIn, wireDb, wireOut, memVars>>

NextDecode == DecodeStep

SpecDecode == InitDecode /\ [][NextDecode]_vars

\* C26: for a response of n named columns and rows of n tagged values the
\* decoder returns one record for each row, in the order of the rows, that
\* maps the i-th column name to the decoded i-th value (null, string,
\* integer, boolean, double, list of decoded elements in their order, map of
\* decoded values, property map of a node); a response without a header gives
\* no record. Every decoding ends.
C26_Decoding ==
    fnRet # <<>> =>
        LET got == fnRet[1]
            cols == fnArg.cols
            rows == fnArg.rows
        IN  IF cols = <<>> THEN got = <<>>
            ELSE /\ Len(got) = Len(rows)
                 /\ \A r \in 1..Len(rows) :
                       got[r] = PyDict([i \in 1..Len(cols) |->
                                           PyPair(cols[i], Decoded(rows[r][i]))])

\* a response of two rows was decoded, one of them a node and one a list that
\* holds a map
C26_Witness ==
    /\ fnRet # <<>> /\ Len(fnRet[1]) = 2
    /\ \E r \in 1..2 : fnArg.rows[r][1].k = "node"
    /\ \E r \in 1..2 :
          /\ fnRet[1][r].items[1].items[1].k = "list"
          /\ fnRet[1][r].items[1].items[1].items # <<>>
          /\ fnRet[1][r].items[1].items[1].items[1].k = "dict"

-----------------------------------------------------------------------------
(* SpecQuote: _quote applied to one value, and the literal as it is sent *)

MaxQuoteLen == 3
MaxNumber == 2
QuoteTexts == UNION {[1..n -> WireChars] : n \in 0..MaxQuoteLen}

\* the values _quote is given: a text, an integer or a boolean
QuoteInputs ==
    {[kind |-> "str", text |-> t, n |-> 0] : t \in QuoteTexts}
        \cup {[kind |-> "int", text |-> <<>>, n |-> n] : n \in 0..MaxNumber}
        \cup {[kind |-> "bool", text |-> <<>>, n |-> n] : n \in {0, 1}}

\* FalkorDBGraphStore._quote: booleans first, then numbers, then the escaped
\* text between single quotes
QuoteValue(v) ==
    IF v.kind = "bool"
    THEN (IF v.n = 1 THEN <<"t", "r", "u", "e">> ELSE <<"f", "a", "l", "s", "e">>)
    ELSE IF v.kind = "int" THEN <<Digit(v.n)>>
    ELSE Quote(v.text)

RECURSIVE LiteralEnd(_, _)
\* where the string literal that opens at position 1 of a command is closed,
\* read from position i on: a backslash takes the next character with it, the
\* first quote that is not taken closes; 0 when nothing closes it
LiteralEnd(cmd, i) ==
    IF i > Len(cmd) THEN 0
    ELSE IF cmd[i] = BS THEN LiteralEnd(cmd, i + 2)
    ELSE IF cmd[i] = SQ THEN i
    ELSE LiteralEnd(cmd, i + 1)

InitQuote ==
    /\ fnArg \in QuoteInputs
    /\ fnRet = <<>>
    /\ conn = None /\ life = None
    /\ entNodes = {} /\ edges = {} /\ epNodes = {}
    /\ lastOp = NoOp
    /\ sel = None /\ resolved = None
    /\ wireIn = None /\ wireDb = None /\ wireOut = None
    /\ MemUnused

\* the value is inlined by _quote and the command goes through _execute_query
QuoteStep ==
    /\ fnRet = <<>>
    /\ fnRet' = <<[literal |-> QuoteValue(fnArg),
                   sent    |-> CompactQuery(QuoteValue(fnArg))]>>
    /\ UNCHANGED <<fnArg, conn, life, entNodes, edges, epNodes, lastOp, sel,
                   resolved, wireIn, wireDb, wireOut, memVars>>

NextQuote == QuoteStep

SpecQuote == InitQuote /\ [][NextQuote]_vars

\* a literal that opens with a quote and is closed by its last character and
\* by none before it
ClosedAtEnd(lit) ==
    /\ Len(lit) >= 2
    /\ lit[1] = SQ /\ lit[Len(lit)] = SQ
    /\ LiteralEnd(lit, 2) = Len(lit)

\* C27: the literal _quote writes for a string starts and ends with a single
\* quote and every quote and backslash between them is escaped, so that the
\* literal is closed by its last character only, also in the command as it
\* is sent; numbers and booleans are written without quotes.
C27_InjectionSafe ==
    fnRet # <<>> =>
        IF fnArg.kind = "str"
        THEN ClosedAtEnd(fnRet[1].literal) /\ ClosedAtEnd(fnRet[1].sent)
        ELSE /\ \A i \in 1..Len(fnRet[1].literal) : fnRet[1].literal[i] # SQ
             /\ fnRet[1].sent = fnRet[1].literal
             /\ fnArg.kind = "int" => fnRet[1].literal = <<Digit(fnArg.n)>>

\* a text that ends with a backslash and holds a quote was inlined
C27_Witness ==
    /\ fnRet # <<>> /\ fnArg.kind = "str"
    /\ Len(fnArg.text) = MaxQuoteLen
    /\ fnArg.text[Len(fnArg.text)] = BS
    /\ \E i \in 1..Len(fnArg.text) : fnArg.text[i] = SQ

-----------------------------------------------------------------------------
(* Statements about tenant keys, checked under SpecTenant *)

\* the scope a combination of selectors resolves to: the tenant type with
\* the identifiers that type is made of
ScopeOf(s) ==
    LET type == Build(s.user_id, s.agent_id, s.session_id).type
    IN  IF type = "session" THEN <<type, s.session_id>>
        ELSE IF type = "combined" THEN <<type, s.user_id, s.agent_id>>
        ELSE IF type = "agent" THEN <<type, s.agent_id>>
        ELSE <<type, s.user_id>>

\* C28: two combinations of selectors that resolve to different scopes never
\* get the same tenant key, identifiers that hold ':' included.
C28_KeysInjective ==
    (resolved # <<>> /\ resolved[1].ok) =>
        \A other \in [user_id : SelUsers, agent_id : SelAgents,
                      session_id : SelSessions] :
            (/\ Build(other.user_id, other.agent_id, other.session_id).ok
             /\ ScopeOf(other) # ScopeOf(sel)) =>
                ResolvedKey(other) # resolved[1].id

-----------------------------------------------------------------------------
(* Statements about the episode of an add, checked under SpecSeq *)

\* FalkorDBGraphStore.get_relationship: LIMIT 1 of the edges with that id
GetRelationship(es, rel_id) ==
    IF \E x \in es : x.p.id = Stored(rel_id)
    THEN <<RecordToRelationship(CHOOSE x \in es : x.p.id = Stored(rel_id))>>
    ELSE <<>>

\* C29: when an add that nothing overlaps has returned, every id in the
\* entity_ids of its episode and of its result is found by get_entity, and
\* every id in the relationship_ids of its episode and of its result is
\* found by get_relationship.
C29_EpisodeIdsResolve ==
    (lastOp.op = "add" /\ ~ lastOp.raised) =>
        LET ep == lastOp.call.episode[1]
            res == lastOp.result
        IN  /\ \A i \in 1..Len(ep.entity_ids) :
                  GetEntity(entNodes, ep.entity_ids[i]) # <<>>
            /\ \A i \in 1..Len(ep.relationship_ids) :
                  GetRelationship(edges, ep.relationship_ids[i]) # <<>>
            /\ \A i \in 1..Len(res.entities) :
                  GetEntity(entNodes, res.entities[i].id) # <<>>
            /\ \A i \in 1..Len(res.relationships) :
                  GetRelationship(edges, res.relationships[i].id) # <<>>
            /\ \E n \in epNodes : n.id = Stored(ep.id)

\* an add that wrote two entities and a relationship between them has
\* returned
C29_Witness ==
    /\ lastOp.op = "add" /\ ~ lastOp.raised
    /\ Len(lastOp.call.episode[1].entity_ids) = 2
    /\ Len(lastOp.call.episode[1].relationship_ids) = 1
    /\ Cardinality(epNodes) >= 2

====
